---- MODULE Spec2Model ----
(***************************************************************************)
(* WatchQueue: the persistence-backed services of app/services             *)
(* (VotingService, QueueService, SelectionService, HistoryService,         *)
(* RoomService) as state machines over the document collections rooms,     *)
(* queue_items, votes and watch_history, and the ConnectionManager of       *)
(* app/routers/websocket.py over its registry of WebSocket connections.    *)
(* Every await on the database or on a socket is one atomic step of the    *)
(* calling coroutine; coroutines interleave between awaits.                *)
(***************************************************************************)
EXTENDS Integers, Sequences, FiniteSets, Bags, TLC

VARIABLES
    queue_items,    \* db.queue_items in natural (insertion) order; _id = index
    votes,          \* db.votes: the bag of rows [item_id, user_id, vote]
    watch_history,  \* db.watch_history in insertion order: rows [room_id, item_id, watched_at, ...]
    vote_calls,     \* per coroutine: the VotingService call it is executing
    add_calls,      \* per coroutine: the QueueService.add_item call it is executing
    add_locks,      \* QueueService._add_locks: key -> [holder, waiters]
    select_call,    \* the last SelectionService.select_next call and its result
    clock,          \* datetime.utcnow(), a logical clock
    rooms,          \* db.rooms: _id -> room document, or NoRoom
    room_calls,     \* per coroutine: the RoomService / rooms router call it is executing
    active_connections,   \* manager.active_connections: room_id -> set of WebSockets
    user_mapping,         \* manager.user_mapping: WebSocket -> user_id
    user_name_mapping,    \* manager.user_name_mapping: WebSocket -> display name
    pending_leave_tasks,  \* manager.pending_leave_tasks: <<room_id, user_id>> -> task
    ws_calls,       \* per WebSocket: the websocket_endpoint coroutine serving it
    leave_tasks,    \* per WebSocket: the _broadcast_left_after_grace task its disconnect created
    sockets,        \* per WebSocket: whether the client end is still there
    presence_sent,  \* per <<room_id, user_id>>: the user_joined / user_left broadcasts made, in order
    watch_calls,    \* per coroutine: the mark_as_watched call or watch request it is executing
    reactions,      \* db.reactions: the documents [_id, item_id, user_id, reaction]
    reaction_ids,   \* the number of _ids given to inserted reaction documents
    react_calls,    \* per coroutine: the ReactionService.toggle_reaction call it is executing
    read_call       \* the last get_room_queue or start_voting_round call and its result

hub_vars == <<active_connections, user_mapping, user_name_mapping,
              pending_leave_tasks, ws_calls, leave_tasks, sockets,
              presence_sent>>

react_vars == <<reactions, reaction_ids, react_calls>>

vars == <<queue_items, votes, watch_history, vote_calls, add_calls, add_locks,
          select_call, clock, rooms, room_calls, hub_vars, watch_calls,
                react_vars, read_call>>

(***************************************************************************)
(* Bounds of the model.                                                    *)
(***************************************************************************)
NProcs == 2          \* coroutines running service calls concurrently
MaxVoteItems == 2    \* queue items present in the voting specifications
MaxClock == 2        \* values of the millisecond clock
MaxSelItems == 2     \* queue items in the small states of the selection specification
MaxHist == 2         \* watch history entries in those states
MaxAbsScore == 1     \* vote_score of an item lies in -MaxAbsScore..MaxAbsScore
MaxOverLimit == 1    \* history entries beyond HistoryLimit in the long-history states
MaxLongQueued == 2   \* queued items in the long-history states
MaxMembers == 2      \* members a room holds in the room specifications
MaxSockets == 3      \* WebSocket connections opened in the realtime specifications
MaxTimeouts == 1     \* receive timeouts counted per connection
MaxWatchItems == 1   \* queue items present in the watch specification
MaxReactionIds == 3  \* reaction documents inserted in the reaction specifications
MaxListItems == 2    \* queue items in the small states of the listing specification
MaxDeleteItems == 2  \* queue items stored before a room is deleted

Procs == 1..NProcs
Users == {"alice", "bob"}
Rooms == {"r1", "r2"}
WebSockets == 1..MaxSockets

\* VoteType
VoteTypes == {"up", "down"}

\* QueueItemStatus
Statuses == {"queued", "watching", "watched", "removed"}

(***************************************************************************)
(* Helpers on sequences.                                                   *)
(***************************************************************************)
Indexes(s) == 1..Len(s)

(***************************************************************************)
(* queue_items documents.                                                  *)
(***************************************************************************)
\* The document QueueService.add_item inserts.
ItemDoc(room, title, tmdb, user, now) ==
    [room_id |-> room, title |-> title, tmdb_id |-> tmdb, added_by |-> user,
     added_at |-> now, status |-> "queued",
     vote_score |-> 0, upvotes |-> 0, downvotes |-> 0]

\* queue_collection.find_one({"_id": item_oid}): 0 when no document matches.
FindItemById(items, id) == IF id \in Indexes(items) THEN id ELSE 0

\* No select_next call has been made.
NoSelectCall ==
    [room_id |-> "", mode |-> "", timed_out |-> FALSE, result |-> 0]

\* A coroutine that is executing neither mark_as_watched nor a watch request.
IdleWatchCall ==
    [op |-> "idle", pc |-> "idle", room_id |-> "", item_id |-> 0,
     notes |-> "", result |-> 0, error |-> ""]

\* A coroutine that is executing no toggle_reaction call.
IdleReactCall ==
    [pc |-> "idle", item_id |-> 0, user_id |-> "", reaction |-> "",
     existing |-> 0, via |-> "", result |-> FALSE, error |-> ""]

\* The empty reactions collection.
ReactInit ==
    /\ reactions = {}
    /\ reaction_ids = 0
    /\ react_calls = [p \in Procs |-> IdleReactCall]

\* Neither get_room_queue nor start_voting_round has been called.
NoReadCall ==
    [op |-> "", room_id |-> "", status |-> "", limit |-> 0, skip |-> 0,
     duration_seconds |-> 0, result |-> <<>>, error |-> ""]

\* A dict without keys.
EmptyDict == [k \in {} |-> 0]

\* d[k] = v
Put(d, k, v) == [x \in DOMAIN d \cup {k} |-> IF x = k THEN v ELSE d[x]]

\* d.pop(k, None) for every k of ks
Pop(d, ks) == [x \in DOMAIN d \ ks |-> d[x]]

\* No broadcast is in progress in the coroutine.
NoBroadcast ==
    [room_id |-> "", type |-> "", user_id |-> "", exclude |-> 0,
     snapshot |-> {}, detached |-> FALSE, visited |-> {}, disconnected |-> {}]

\* websocket_endpoint has not been called for the WebSocket.
IdleWsCall ==
    [pc |-> "new", room_id |-> "", user_id |-> "", user_name |-> "",
     popped_user |-> "", heartbeat |-> "none", timeouts |-> 0,
     presence_reply |-> EmptyDict, bcast |-> NoBroadcast]

\* No _broadcast_left_after_grace task was created.
NoLeaveTask ==
    [pc |-> "none", room_id |-> "", user_id |-> "", cancelled |-> FALSE,
     bcast |-> NoBroadcast]

\* The ConnectionManager after __init__, with no WebSocket opened.
HubInit ==
    /\ active_connections = EmptyDict
    /\ user_mapping = EmptyDict
    /\ user_name_mapping = EmptyDict
    /\ pending_leave_tasks = EmptyDict
    /\ ws_calls = [w \in WebSockets |-> IdleWsCall]
    /\ leave_tasks = [w \in WebSockets |-> NoLeaveTask]
    /\ sockets = [w \in WebSockets |-> "open"]
    /\ presence_sent = [k \in Rooms \X Users |-> <<>>]

\* The empty rooms collection.
NoRooms == [r \in {} |-> 0]

\* room_doc of RoomService.create_room: the first member is the admin.
RoomDoc(name, members, mode) ==
    [name |-> name, members |-> members,
     admins |-> IF members = <<>> THEN {} ELSE {members[1].user_id},
     selection_mode |-> mode]

\* The rooms collection with one room r1 of two members, created with the
\* default settings.
MovieRoom ==
    [r \in {"r1"} |->
        RoomDoc(<<"m">>, <<[user_id |-> "alice", name |-> <<"d">>],
                          [user_id |-> "bob", name |-> <<"e">>]>>,
                "weighted_random")]

\* A coroutine that is executing no RoomService call.  name and members are
\* sequences; "" stands for None in new_admin and mode; actor is the
\* acting_user_id of a request to the rooms router; item_ids is the list
\* delete_room reads before it deletes the queue items.
IdleRoomCall ==
    [op |-> "", pc |-> "idle", room_id |-> "", actor |-> "", user_id |-> "",
     name |-> <<>>, new_admin |-> "", members |-> <<>>, mode |-> "",
     item_ids |-> {}, result |-> ""]

(***************************************************************************)
(* VotingService                                                           *)
(***************************************************************************)
IdleVoteCall ==
    [op |-> "idle", pc |-> "idle", item_id |-> 0, user_id |-> "", vote |-> "",
     matched |-> 0, upvotes |-> 0, downvotes |-> 0, error |-> ""]

\* Rows of votes_collection matching {"item_id": i, "user_id": u}.
MatchingVotes(rows, i, u) ==
    {r \in BagToSet(rows) : r.item_id = i /\ r.user_id = u}

\* Number of documents of the collection that are in the set of rows S.
CountRows(rows, S) == BagCardinality([r \in S \cap BagToSet(rows) |-> rows[r]])

\* The unique index item_user_unique of database.py: inserting a row for
\* (i, u) raises DuplicateKeyError when the collection holds one already.
NoUniqueIndex(rows, i, u) == FALSE

ItemUserUniqueViolated(rows, i, u) == MatchingVotes(rows, i, u) # {}

\* $set vote on one document matching (i, u).
SetVoteOfOne(rows, i, u, d) ==
    LET r == CHOOSE x \in MatchingVotes(rows, i, u) : TRUE IN
    (rows (-) SetToBag({r})) (+) SetToBag({[r EXCEPT !.vote = d]})

\* find_one_and_update(..., upsert=True), write phase.  A row that matched at
\* query time and still exists gets $set vote; otherwise the server inserts,
\* and an insert refused by the unique index is retried as an update.
UpsertVote(rows, matched, i, u, d) ==
    IF matched # 0 /\ MatchingVotes(rows, i, u) # {}
    THEN SetVoteOfOne(rows, i, u, d)
    ELSE IF ItemUserUniqueViolated(rows, i, u)
    THEN SetVoteOfOne(rows, i, u, d)
    ELSE rows (+) SetToBag({[item_id |-> i, user_id |-> u, vote |-> d]})

\* delete_one({"item_id": i, "user_id": u}).
DeleteOneVote(rows, i, u) ==
    LET hit == MatchingVotes(rows, i, u) IN
    IF hit = {} THEN rows ELSE rows (-) SetToBag({CHOOSE x \in hit : TRUE})

\* The $match/$group pipeline of _recalculate_vote_counts: number of rows of
\* item i per direction.
CountVotesNoMatch(rows, i, d) ==
    CountRows(rows, {r \in BagToSet(rows) : r.vote = d})

CountVotes(rows, i, d) ==
    CountRows(rows, {r \in BagToSet(rows) : r.item_id = i /\ r.vote = d})

\* The $set of _recalculate_vote_counts on the item document.
SetVoteCounts(items, i, up, down) ==
    IF i \in Indexes(items)
    THEN [items EXCEPT ![i] = [@ EXCEPT !.upvotes = up, !.downvotes = down,
                                        !.vote_score = up - down]]
    ELSE items

VoteActive(p) == vote_calls[p].pc \notin {"idle", "done"}

UnchangedNonVote ==
    UNCHANGED <<watch_history, add_calls, add_locks, select_call, clock,
                rooms, room_calls, hub_vars, watch_calls,
                react_vars, read_call>>

\* vote(vote_data) is called: item_id may name no document.
VoteBegin(p) ==
    /\ vote_calls[p].pc = "idle"
    /\ \E i \in 1..(Len(queue_items) + 1), u \in Users, d \in VoteTypes :
         vote_calls' = [vote_calls EXCEPT ![p] =
            [IdleVoteCall EXCEPT !.op = "vote", !.pc = "find_item",
                                 !.item_id = i, !.user_id = u, !.vote = d]]
    /\ UNCHANGED <<queue_items, votes>>
    /\ UnchangedNonVote

\* item = await queue_collection.find_one(...); raise ValueError if absent.
VoteFindItem(p) ==
    /\ vote_calls[p].pc = "find_item"
    /\ vote_calls' = [vote_calls EXCEPT ![p] =
         IF FindItemById(queue_items, vote_calls[p].item_id) = 0
         THEN [@ EXCEPT !.pc = "done", !.error = "Item not found"]
         ELSE [@ EXCEPT !.pc = "upsert_query"]]
    /\ UNCHANGED <<queue_items, votes>>
    /\ UnchangedNonVote

\* find_one_and_update, query phase: the server looks for the (item, user) row.
VoteUpsertQuery(p) ==
    /\ vote_calls[p].pc = "upsert_query"
    /\ LET c == vote_calls[p]
           hit == MatchingVotes(votes, c.item_id, c.user_id) IN
       vote_calls' = [vote_calls EXCEPT ![p] =
          [@ EXCEPT !.pc = "upsert_write",
                    !.matched = IF hit = {} THEN 0 ELSE 1]]
    /\ UNCHANGED <<queue_items, votes>>
    /\ UnchangedNonVote

\* find_one_and_update, write phase.
VoteUpsertWrite(p) ==
    /\ vote_calls[p].pc = "upsert_write"
    /\ LET c == vote_calls[p] IN
       votes' = UpsertVote(votes, c.matched, c.item_id, c.user_id, c.vote)
    /\ vote_calls' = [vote_calls EXCEPT ![p].pc = "aggregate"]
    /\ UNCHANGED queue_items
    /\ UnchangedNonVote

\* remove_vote(item_id, user_id) is called.
RemoveVoteBegin(p) ==
    /\ vote_calls[p].pc = "idle"
    /\ \E i \in 1..(Len(queue_items) + 1), u \in Users :
         vote_calls' = [vote_calls EXCEPT ![p] =
            [IdleVoteCall EXCEPT !.op = "remove_vote", !.pc = "delete",
                                 !.item_id = i, !.user_id = u]]
    /\ UNCHANGED <<queue_items, votes>>
    /\ UnchangedNonVote

\* result = await votes_collection.delete_one(...); recalculates only when a
\* row was deleted.
RemoveVoteDelete(p) ==
    /\ vote_calls[p].pc = "delete"
    /\ LET c == vote_calls[p]
           hit == MatchingVotes(votes, c.item_id, c.user_id) IN
       IF hit = {}
       THEN /\ votes' = votes
            /\ vote_calls' = [vote_calls EXCEPT ![p].pc = "done"]
       ELSE /\ votes' = DeleteOneVote(votes, c.item_id, c.user_id)
            /\ vote_calls' = [vote_calls EXCEPT ![p].pc = "aggregate",
                                                ![p].matched = 1]
    /\ UNCHANGED queue_items
    /\ UnchangedNonVote

\* _recalculate_vote_counts: the aggregate read.
RecalcAggregate(p) ==
    /\ vote_calls[p].pc = "aggregate"
    /\ LET c == vote_calls[p] IN
       vote_calls' = [vote_calls EXCEPT ![p] =
         [c EXCEPT !.pc = "write_counts",
                   !.upvotes = CountVotes(votes, c.item_id, "up"),
                   !.downvotes = CountVotes(votes, c.item_id, "down")]]
    /\ UNCHANGED <<queue_items, votes>>
    /\ UnchangedNonVote

\* _recalculate_vote_counts: the update_one that writes the three fields.
RecalcUpdate(p) ==
    /\ vote_calls[p].pc = "write_counts"
    /\ LET c == vote_calls[p] IN
       queue_items' = SetVoteCounts(queue_items, c.item_id, c.upvotes, c.downvotes)
    /\ vote_calls' = [vote_calls EXCEPT ![p].pc = "done"]
    /\ UNCHANGED votes
    /\ UnchangedNonVote

\* The caller takes the result; the coroutine is free for its next call.
VoteReturn(p) ==
    /\ vote_calls[p].pc = "done"
    /\ vote_calls' = [vote_calls EXCEPT ![p] = IdleVoteCall]
    /\ UNCHANGED <<queue_items, votes>>
    /\ UnchangedNonVote

VoteStep(p) ==
    \/ VoteBegin(p)
    \/ VoteFindItem(p)
    \/ VoteUpsertQuery(p)
    \/ VoteUpsertWrite(p)
    \/ RemoveVoteBegin(p)
    \/ RemoveVoteDelete(p)
    \/ RecalcAggregate(p)
    \/ RecalcUpdate(p)

(***************************************************************************)
(* QueueService.add_item, enrich_item, remove_item                         *)
(***************************************************************************)
\* Titles are sequences of characters.
Titles == {<<"d">>, <<"D">>, <<"e">>, <<"d", " ">>}

\* tmdb_id values; 0 stands for None (both are falsy in `if item_data.tmdb_id`).
TmdbIds == {7}

\* str.lower() on one character.
LowerChar(c) == IF c = "D" THEN "d" ELSE IF c = "E" THEN "e" ELSE c

\* str.lower()
Lower(t) == [k \in DOMAIN t |-> LowerChar(t[k])]

\* str.strip(): leading and trailing whitespace removed.
RECURSIVE Strip(_)
Strip(t) ==
    IF t = <<>> THEN t
    ELSE IF Head(t) = " " THEN Strip(Tail(t))
    ELSE IF t[Len(t)] = " " THEN Strip(SubSeq(t, 1, Len(t) - 1))
    ELSE t

\* The key of _get_add_lock: f"{room_id}:{title.strip().lower()}".
AddLockKeyCaseSensitive(room, title) == <<room, Strip(title)>>

AddLockKey(room, title) == <<room, Lower(Strip(title))>>

\* {"$regex": f"^{re.escape(title)}$", "$options": "i"} applied to a stored
\* title: equal ignoring case, whitespace included.
TitleRegexMatches(stored, title) == Lower(stored) = Lower(title)

\* The first document in natural order among the ids S; 0 when S is empty.
FirstOf(S) == IF S = {} THEN 0 ELSE CHOOSE i \in S : \A j \in S : i <= j

\* find_one({room_id, title regex, status: {$ne: removed}})
FindByTitle(items, room, title) ==
    FirstOf({i \in Indexes(items) :
                /\ items[i].room_id = room
                /\ TitleRegexMatches(items[i].title, title)
                /\ items[i].status # "removed"})

\* find_one({room_id, tmdb_id, status: {$ne: removed}})
FindByTmdb(items, room, tmdb) ==
    FirstOf({i \in Indexes(items) :
                /\ items[i].room_id = room
                /\ items[i].tmdb_id = tmdb
                /\ items[i].status # "removed"})

IdleAddCall ==
    [pc |-> "idle", room_id |-> "", title |-> <<>>, tmdb_id |-> 0,
     added_by |-> "", added_at |-> 0, waited |-> FALSE, result |-> 0,
     via |-> ""]

\* An asyncio.Lock: _locked and the FIFO of waiting coroutines.
FreeLock == [locked |-> FALSE, waiters |-> <<>>]

\* cls._add_locks[key], created on first use.
LockOf(key) == IF key \in DOMAIN add_locks THEN add_locks[key] ELSE FreeLock

SetLock(key, l) ==
    [k \in DOMAIN add_locks \cup {key} |-> IF k = key THEN l ELSE add_locks[k]]

\* Lock.release() at the exit of `async with lock`.
ReleaseLock(key) == SetLock(key, [LockOf(key) EXCEPT !.locked = FALSE])

UnchangedNonAdd ==
    UNCHANGED <<votes, watch_history, vote_calls, select_call, rooms,
                room_calls, hub_vars, watch_calls,
                react_vars, read_call>>

\* add_item(item_data) is called and reaches `async with lock`: the lock is
\* taken at once when it is free and nobody waits, else the caller queues.
AddBegin(p) ==
    /\ add_calls[p].pc = "idle"
    /\ \E room \in Rooms, title \in Titles, tmdb \in TmdbIds \cup {0},
          user \in Users :
         LET key == AddLockKey(room, title)
             l == LockOf(key)
             c == [IdleAddCall EXCEPT !.room_id = room, !.title = title,
                                      !.tmdb_id = tmdb, !.added_by = user]
         IN IF ~l.locked /\ l.waiters = <<>>
            THEN /\ add_locks' = SetLock(key, [l EXCEPT !.locked = TRUE])
                 /\ add_calls' = [add_calls EXCEPT ![p] =
                                     [c EXCEPT !.pc = "find_title"]]
            ELSE /\ add_locks' = SetLock(key,
                                    [l EXCEPT !.waiters = Append(@, p)])
                 /\ add_calls' = [add_calls EXCEPT ![p] =
                                     [c EXCEPT !.pc = "wait_lock",
                                               !.waited = TRUE]]
    /\ UNCHANGED <<queue_items, clock>>
    /\ UnchangedNonAdd

\* The first waiter resumes after a release and takes the lock.
AddLockAcquired(p) ==
    /\ add_calls[p].pc = "wait_lock"
    /\ LET key == AddLockKey(add_calls[p].room_id, add_calls[p].title)
           l == LockOf(key)
       IN /\ ~l.locked
          /\ l.waiters # <<>>
          /\ Head(l.waiters) = p
          /\ add_locks' = SetLock(key, [locked |-> TRUE,
                                        waiters |-> Tail(l.waiters)])
    /\ add_calls' = [add_calls EXCEPT ![p].pc = "find_title"]
    /\ UNCHANGED <<queue_items, clock>>
    /\ UnchangedNonAdd

\* existing = await find_one(title ...): return it, or go on to the tmdb_id
\* lookup, or build item_doc (added_at = utcnow()) and go on to the insert.
AddFindTitle(p) ==
    /\ add_calls[p].pc = "find_title"
    /\ LET c == add_calls[p]
           existing == FindByTitle(queue_items, c.room_id, c.title)
       IN IF existing # 0
          THEN /\ add_calls' = [add_calls EXCEPT ![p] =
                    [c EXCEPT !.pc = "done", !.result = existing,
                              !.via = "title"]]
               /\ add_locks' = ReleaseLock(AddLockKey(c.room_id, c.title))
          ELSE IF c.tmdb_id # 0
          THEN /\ add_calls' = [add_calls EXCEPT ![p].pc = "find_tmdb"]
               /\ UNCHANGED add_locks
          ELSE /\ add_calls' = [add_calls EXCEPT ![p] =
                    [c EXCEPT !.pc = "insert", !.added_at = clock]]
               /\ UNCHANGED add_locks
    /\ UNCHANGED <<queue_items, clock>>
    /\ UnchangedNonAdd

\* existing = await find_one(tmdb_id ...): return it, or build item_doc.
AddFindTmdb(p) ==
    /\ add_calls[p].pc = "find_tmdb"
    /\ LET c == add_calls[p]
           existing == FindByTmdb(queue_items, c.room_id, c.tmdb_id)
       IN IF existing # 0
          THEN /\ add_calls' = [add_calls EXCEPT ![p] =
                    [c EXCEPT !.pc = "done", !.result = existing,
                              !.via = "tmdb"]]
               /\ add_locks' = ReleaseLock(AddLockKey(c.room_id, c.title))
          ELSE /\ add_calls' = [add_calls EXCEPT ![p] =
                    [c EXCEPT !.pc = "insert", !.added_at = clock]]
               /\ UNCHANGED add_locks
    /\ UNCHANGED <<queue_items, clock>>
    /\ UnchangedNonAdd

\* result = await insert_one(item_doc); return the new item.  queue_items has
\* no unique index, so the insert never raises DuplicateKeyError.
AddInsert(p) ==
    /\ add_calls[p].pc = "insert"
    /\ LET c == add_calls[p] IN
       /\ queue_items' = Append(queue_items,
              ItemDoc(c.room_id, c.title, c.tmdb_id, c.added_by, c.added_at))
       /\ add_calls' = [add_calls EXCEPT ![p] =
              [c EXCEPT !.pc = "done", !.result = Len(queue_items) + 1,
                        !.via = "insert"]]
       /\ add_locks' = ReleaseLock(AddLockKey(c.room_id, c.title))
    /\ UNCHANGED clock
    /\ UnchangedNonAdd

\* enrich_item(item_id, tmdb_id=t): find_one_and_update $set of the fields
\* given; of the enrichment fields the model keeps tmdb_id.
EnrichItem(i, t) ==
    /\ i \in Indexes(queue_items)
    /\ queue_items[i].tmdb_id # t
    /\ queue_items' = [queue_items EXCEPT ![i].tmdb_id = t]
    /\ UNCHANGED <<add_calls, add_locks, clock>>
    /\ UnchangedNonAdd

\* remove_item(item_id): update_one $set status = removed.
RemoveItem(i) ==
    /\ i \in Indexes(queue_items)
    /\ queue_items[i].status # "removed"
    /\ queue_items' = [queue_items EXCEPT ![i].status = "removed"]
    /\ UNCHANGED <<add_calls, add_locks, clock>>
    /\ UnchangedNonAdd

\* Time passes: utcnow(), as stored (BSON dates keep milliseconds), moves on
\* to the next value.  Two reads between two ticks return the same value.
Tick ==
    /\ clock < MaxClock
    /\ clock' = clock + 1
    /\ UNCHANGED <<queue_items, add_calls, add_locks>>
    /\ UnchangedNonAdd

\* The state after construction: empty collections, no lock created.
Init ==
    /\ queue_items = <<>>
    /\ votes = EmptyBag
    /\ watch_history = <<>>
    /\ vote_calls = [p \in Procs |-> IdleVoteCall]
    /\ add_calls = [p \in Procs |-> IdleAddCall]
    /\ add_locks = <<>>
    /\ select_call = NoSelectCall
    /\ clock = 1
    /\ rooms = NoRooms
    /\ room_calls = [p \in Procs |-> IdleRoomCall]
    /\ HubInit
    /\ watch_calls = [p \in Procs |-> IdleWatchCall]
    /\ ReactInit
    /\ read_call = NoReadCall

NextAdd ==
    \/ \E p \in Procs :
          \/ AddBegin(p)
          \/ AddLockAcquired(p)
          \/ AddFindTitle(p)
          \/ AddFindTmdb(p)
          \/ AddInsert(p)
    \/ \E i \in 1..NProcs, t \in TmdbIds : EnrichItem(i, t)
    \/ \E i \in 1..NProcs : RemoveItem(i)
    \/ Tick

SpecAdd == Init /\ [][NextAdd]_vars

(***************************************************************************)
(* SelectionService                                                        *)
(***************************************************************************)
\* SelectionMode
Modes == {"weighted_random", "highest_votes", "round_robin"}

\* .limit(50) on the watch history read of _select_round_robin.
HistoryLimit == 50

QueuedIdsAnyStatus(items, room) ==
    {i \in Indexes(items) : items[i].room_id = room}

\* Documents matching {"room_id": room_id, "status": "queued"}.
QueuedIds(items, room) ==
    {i \in Indexes(items) :
        items[i].room_id = room /\ items[i].status = "queued"}

\* sort=[("vote_score", -1), ("added_at", 1)]: document i sorts strictly
\* before document j.
SortsBefore(items, i, j) ==
    \/ items[i].vote_score > items[j].vote_score
    \/ /\ items[i].vote_score = items[j].vote_score
       /\ items[i].added_at < items[j].added_at

\* _select_highest_votes: find_one with that sort returns a document no other
\* matching document sorts before; the order of documents equal on both sort
\* keys is not defined by the store.  0 stands for None.
SelectHighestVotes(items, room) ==
    LET Q == QueuedIds(items, room) IN
    IF Q = {} THEN {0}
    ELSE {i \in Q : \A j \in Q : ~SortsBefore(items, j, i)}

Max0(x) == IF x > 0 THEN x ELSE 0

\* weight = 1 + max(0, vote_score) * 2
WeightNoFloor(vote_score) == 1 + vote_score * 2

Weight(vote_score) == 1 + Max0(vote_score) * 2

\* The ids S as a list in natural order (the order find() yields them).
RECURSIVE ListOf(_)
ListOf(S) ==
    IF S = {} THEN <<>> ELSE <<FirstOf(S)>> \o ListOf(S \ {FirstOf(S)})

\* itertools.accumulate(weights), element j.
RECURSIVE CumWeight(_, _)
CumWeight(ws, j) == IF j = 0 THEN 0 ELSE CumWeight(ws, j - 1) + ws[j]

\* random.choices(items, weights=weights, k=1)[0] for a draw random() * total
\* whose integer part is k: bisect(cum_weights, x, 0, n - 1).
ChoicesPick(ws, k) ==
    1 + Cardinality({j \in 1..(Len(ws) - 1) : CumWeight(ws, j) <= k})

\* _select_weighted_random: every result random.choices can produce.
SelectWeightedRandom(items, room) ==
    LET lst == ListOf(QueuedIds(items, room))
        ws == [j \in 1..Len(lst) |-> Weight(items[lst[j]].vote_score)]
        total == CumWeight(ws, Len(ws))
    IN IF lst = <<>> THEN {0}
       ELSE {lst[ChoicesPick(ws, k)] : k \in 0..(total - 1)}

\* history_collection.find({"room_id": room_id}).sort("watched_at", -1): the
\* entries of the room, most recent first.
WatchedAtRank(history, S) ==
    [k \in S |->
        1 + Cardinality({y \in S :
              \/ history[y].watched_at > history[k].watched_at
              \/ /\ history[y].watched_at = history[k].watched_at
                 /\ y < k})]

ArrangeBy(history, S, rank) ==
    [pos \in 1..Cardinality(S) |-> history[CHOOSE k \in S : rank[k] = pos]]

SortedByWatchedAtDesc(history, S) ==
    ArrangeBy(history, S, WatchedAtRank(history, S))

\* cursor.limit(n)
Limit(docs, n) == SubSeq(docs, 1, IF Len(docs) < n THEN Len(docs) ELSE n)

\* recent_history: the sorted entries cut by .limit(50).
RecentHistory(history, room) ==
    Limit(SortedByWatchedAtDesc(history,
              {k \in Indexes(history) : history[k].room_id = room}),
          HistoryLimit)

\* recent_pickers: added_by of the item of each recent entry, in that order;
\* entries whose item no longer exists are skipped.
AddedByOf(items, found) ==
    [k \in 1..Len(found) |-> items[found[k].item_id].added_by]

RecentPickers(items, recent) ==
    AddedByOf(items,
              SelectSeq(recent, LAMBDA e : FindItemById(items, e.item_id) # 0))

\* user_priority: recent_pickers.index(user), or -1 for a user not in it.
UserPriorityNeverLast(pickers, user) ==
    IF \E k \in Indexes(pickers) : pickers[k] = user
    THEN (CHOOSE k \in Indexes(pickers) :
             /\ pickers[k] = user
             /\ \A j \in Indexes(pickers) : pickers[j] = user => k <= j) - 1
    ELSE Len(pickers)

UserPriority(pickers, user) ==
    IF \E k \in Indexes(pickers) : pickers[k] = user
    THEN (CHOOSE k \in Indexes(pickers) :
             /\ pickers[k] = user
             /\ \A j \in Indexes(pickers) : pickers[j] = user => k <= j) - 1
    ELSE -1

\* _select_round_robin.  users_with_items.sort(key=user_priority) is stable
\* over the order find() yielded the users' items, and so is the sort of the
\* priority user's items by vote_score: the user is any user of least
\* priority value, the item any of that user's items of highest vote_score.
PriorityUsers(users_with_items, priority) ==
    {u \in users_with_items :
        \A v \in users_with_items : priority[u] <= priority[v]}

RoundRobinPick(items, Q, first) ==
    IF Q = {} THEN {0}
    ELSE {i \in Q :
            /\ items[i].added_by \in first
            /\ \A j \in Q : items[j].added_by = items[i].added_by
                               => items[j].vote_score <= items[i].vote_score}

RoundRobinOver(items, Q, pickers) ==
    RoundRobinPick(items, Q,
        PriorityUsers({items[i].added_by : i \in Q},
                      [u \in {items[i].added_by : i \in Q} |->
                          UserPriority(pickers, u)]))

SelectRoundRobin(items, history, room) ==
    RoundRobinOver(items, QueuedIds(items, room),
                   RecentPickers(items, RecentHistory(history, room)))

\* _do_selection
DoSelection(items, history, room, mode) ==
    IF mode = "highest_votes" THEN SelectHighestVotes(items, room)
    ELSE IF mode = "round_robin" THEN SelectRoundRobin(items, history, room)
    ELSE SelectWeightedRandom(items, room)

\* except asyncio.TimeoutError: return await self._select_highest_votes(...)
TimeoutFails(items, room) == {0}

TimeoutFallback(items, room) == SelectHighestVotes(items, room)

UnchangedBySelect ==
    UNCHANGED <<queue_items, votes, watch_history, vote_calls, add_calls,
                add_locks, clock, rooms, room_calls, hub_vars, watch_calls,
                react_vars, read_call>>

\* select_next(room_id, mode) with a mode given: the algorithm finishes within
\* the timeout.
SelectNextCompletes(room, mode) ==
    /\ \E r \in DoSelection(queue_items, watch_history, room, mode) :
         select_call' = [room_id |-> room, mode |-> mode, timed_out |-> FALSE,
                         result |-> r]
    /\ UnchangedBySelect

\* select_next(room_id, mode): wait_for raises TimeoutError and the handler
\* falls back.
SelectNextTimesOut(room, mode) ==
    /\ \E r \in TimeoutFallback(queue_items, room) :
         select_call' = [room_id |-> room, mode |-> mode, timed_out |-> TRUE,
                         result |-> r]
    /\ UnchangedBySelect

\* select_next(room_id) without a mode: no room document is found and the
\* call returns None.
SelectNextNoRoom(room) ==
    /\ room \notin DOMAIN rooms
    /\ select_call' = [room_id |-> room, mode |-> "", timed_out |-> FALSE,
                       result |-> 0]
    /\ UnchangedBySelect

\* select_next(room_id) without a mode: the mode is the room document's
\* settings.selection_mode.
SelectNextRoomMode(room) ==
    /\ room \in DOMAIN rooms
    /\ \/ SelectNextCompletes(room, rooms[room].selection_mode)
       \/ SelectNextTimesOut(room, rooms[room].selection_mode)

\* select_next(room_id, mode), with a mode or with mode None.
SelectNext(room) ==
    \/ \E mode \in Modes : SelectNextCompletes(room, mode)
    \/ \E mode \in Modes : SelectNextTimesOut(room, mode)
    \/ SelectNextRoomMode(room)
    \/ SelectNextNoRoom(room)

(***************************************************************************)
(* RoomService                                                             *)
(***************************************************************************)
\* Room names and member display names are sequences of characters.
RoomNames == {<<"d">>, <<"D">>, <<"e">>}

MemberNames == {<<"d">>, <<"D">>, <<"e">>, <<"d", " ">>}

NormalizeNoStrip(name) == Lower(name)

\* _normalize_member_name: name.strip().lower()
NormalizeMemberName(name) == Lower(Strip(name))

\* {"name": {"$regex": f"^{room_data.name}$", "$options": "i"}} applied to a
\* stored room name.
RoomNameRegexMatches(stored, name) == Lower(stored) = Lower(name)

\* member_ids = [m.get("user_id") for m in members]
MemberIds(members) == {members[k].user_id : k \in Indexes(members)}

\* {"$pull": {"members": {"user_id": user_id}}}: every element of that
\* user_id is removed.
PullMember(members, user) == SelectSeq(members, LAMBDA m : m.user_id # user)

\* The collection with document doc stored under _id id.
SetRoom(rs, id, doc) ==
    [r \in DOMAIN rs \cup {id} |-> IF r = id THEN doc ELSE rs[r]]

\* The _id insert_one gives a new room document.
NewRoomId(rs) == CHOOSE r \in Rooms \ DOMAIN rs : TRUE

\* The call of coroutine p ends with this result.
RoomCallEnds(p, call, result) ==
    room_calls' = [room_calls EXCEPT ![p] = [call EXCEPT !.pc = "done",
                                                         !.result = result]]

\* The call of coroutine p goes on at pc.
RoomCallGoes(p, call, pc) ==
    room_calls' = [room_calls EXCEPT ![p] = [call EXCEPT !.pc = pc]]

UnchangedNonRoom ==
    UNCHANGED <<queue_items, votes, watch_history, vote_calls, add_calls,
                add_locks, select_call, clock, hub_vars, watch_calls,
                react_vars, read_call>>

\* seen_names: two members of the list have the same normalized name.
SeenNameTwice(members) ==
    \E j, k \in Indexes(members) :
        /\ j < k
        /\ NormalizeMemberName(members[j].name)
              = NormalizeMemberName(members[k].name)

\* create_room(room_data), up to the member name check: the lookup of the
\* room name, then the loop over room_data.members.
CreateRoomFindName(p, name, members, mode) ==
    /\ room_calls[p].pc = "idle"
    /\ LET call == [IdleRoomCall EXCEPT !.op = "create_room", !.name = name,
                                        !.members = members, !.mode = mode]
       IN IF \E r \in DOMAIN rooms : RoomNameRegexMatches(rooms[r].name, name)
          THEN RoomCallEnds(p, call, "ValueError: room name exists")
          ELSE IF SeenNameTwice(members)
          THEN RoomCallEnds(p, call, "ValueError: user exists")
          ELSE RoomCallGoes(p, call, "insert")
    /\ UNCHANGED rooms
    /\ UnchangedNonRoom

\* create_room: insert_one(room_doc).  (The join code, drawn at random and
\* looked up before the insert, is not part of the modelled document.)
CreateRoomInsert(p) ==
    /\ room_calls[p].op = "create_room" /\ room_calls[p].pc = "insert"
    /\ Rooms \ DOMAIN rooms # {}
    /\ LET call == room_calls[p]
           id == NewRoomId(rooms)
       IN /\ rooms' = SetRoom(rooms, id,
                              RoomDoc(call.name, call.members, call.mode))
          /\ RoomCallEnds(p, [call EXCEPT !.room_id = id], "ok")
    /\ UnchangedNonRoom

\* update_room(room_id, room_update): find_one_and_update with $set of the
\* fields given; name <<>> and mode "" stand for None.  With neither given
\* the call is get_room.
UpdateRoom(p, room, name, mode) ==
    /\ room_calls[p].pc = "idle"
    /\ LET call == [IdleRoomCall EXCEPT !.op = "update_room",
                        !.room_id = room, !.name = name, !.mode = mode]
       IN IF room \notin DOMAIN rooms
          THEN /\ RoomCallEnds(p, call, "None")
               /\ UNCHANGED rooms
          ELSE /\ RoomCallEnds(p, call, "ok")
               /\ rooms' = [rooms EXCEPT ![room] =
                     [@ EXCEPT !.name = IF name = <<>> THEN @ ELSE name,
                               !.selection_mode = IF mode = "" THEN @ ELSE mode]]
    /\ UnchangedNonRoom

\* name_taken of add_member: some member has the same normalized name.
AddNameTaken(members, member) ==
    \E k \in Indexes(members) :
        NormalizeMemberName(members[k].name) = NormalizeMemberName(member.name)

\* add_member(room_id, member), up to the checks on the document read.
AddMemberRead(p, room, member) ==
    /\ room_calls[p].pc = "idle"
    /\ LET call == [IdleRoomCall EXCEPT !.op = "add_member", !.room_id = room,
                        !.user_id = member.user_id, !.name = member.name]
       IN IF room \notin DOMAIN rooms
          THEN RoomCallEnds(p, call, "None")
          ELSE IF member.user_id \in MemberIds(rooms[room].members)
          THEN RoomCallEnds(p, call, "ok")
          ELSE IF AddNameTaken(rooms[room].members, member)
          THEN RoomCallEnds(p, call, "ValueError: user exists")
          ELSE RoomCallGoes(p, call, "push")
    /\ UNCHANGED rooms
    /\ UnchangedNonRoom

\* add_member: find_one_and_update with {"$push": {"members": member}}.
AddMemberPush(p) ==
    /\ room_calls[p].op = "add_member" /\ room_calls[p].pc = "push"
    /\ LET call == room_calls[p] IN
       IF call.room_id \notin DOMAIN rooms
       THEN /\ RoomCallEnds(p, call, "None")
            /\ UNCHANGED rooms
       ELSE /\ RoomCallEnds(p, call, "ok")
            /\ rooms' = [rooms EXCEPT ![call.room_id].members =
                            Append(@, [user_id |-> call.user_id,
                                       name |-> call.name])]
    /\ UnchangedNonRoom

\* remove_member(room_id, user_id): find_one_and_update with $pull on members.
RemoveMember(p, room, user) ==
    /\ room_calls[p].pc = "idle"
    /\ LET call == [IdleRoomCall EXCEPT !.op = "remove_member",
                        !.room_id = room, !.user_id = user]
       IN IF room \notin DOMAIN rooms
          THEN /\ RoomCallEnds(p, call, "None")
               /\ UNCHANGED rooms
          ELSE /\ RoomCallEnds(p, call, "ok")
               /\ rooms' = [rooms EXCEPT ![room].members = PullMember(@, user)]
    /\ UnchangedNonRoom

\* name_taken of update_member: a member of another user_id has the same
\* normalized name.
UpdateNameTaken(members, member) ==
    \E k \in Indexes(members) :
        /\ members[k].user_id # member.user_id
        /\ NormalizeMemberName(members[k].name)
              = NormalizeMemberName(member.name)

\* update_member(room_id, member), up to the check on the document read.
UpdateMemberRead(p, room, member) ==
    /\ room_calls[p].pc = "idle"
    /\ LET call == [IdleRoomCall EXCEPT !.op = "update_member",
                        !.room_id = room, !.user_id = member.user_id,
                        !.name = member.name]
       IN IF room \notin DOMAIN rooms
          THEN RoomCallEnds(p, call, "None")
          ELSE IF UpdateNameTaken(rooms[room].members, member)
          THEN RoomCallEnds(p, call, "ValueError: user exists")
          ELSE RoomCallGoes(p, call, "set")
    /\ UNCHANGED rooms
    /\ UnchangedNonRoom

\* {"$set": {"members.$.name": ...}} under the filter members.user_id: the
\* first element of that user_id is updated.
SetFirstMemberName(members, user, name) ==
    LET first == FirstOf({k \in Indexes(members) : members[k].user_id = user})
    IN [members EXCEPT ![first].name = name]

\* update_member: find_one_and_update of the member's element.
UpdateMemberSet(p) ==
    /\ room_calls[p].op = "update_member" /\ room_calls[p].pc = "set"
    /\ LET call == room_calls[p] IN
       IF \/ call.room_id \notin DOMAIN rooms
          \/ call.user_id \notin MemberIds(rooms[call.room_id].members)
       THEN /\ RoomCallEnds(p, call, "None")
            /\ UNCHANGED rooms
       ELSE /\ RoomCallEnds(p, call, "ok")
            /\ rooms' = [rooms EXCEPT ![call.room_id].members =
                            SetFirstMemberName(@, call.user_id, call.name)]
    /\ UnchangedNonRoom

\* RoomService.grant_admin: find_one_and_update under the filter
\* {"_id", "members.user_id": target} with $addToSet on admins; the new
\* rooms collection and the result.
GrantAdminUpdate(rs, room, target) ==
    IF room \in DOMAIN rs /\ target \in MemberIds(rs[room].members)
    THEN [rooms |-> [rs EXCEPT ![room].admins = @ \cup {target}],
          result |-> "ok"]
    ELSE [rooms |-> rs, result |-> "None"]

\* grant_admin(room_id, target_user_id) of the service.
GrantAdmin(p, room, target) ==
    /\ room_calls[p].pc = "idle"
    /\ LET call == [IdleRoomCall EXCEPT !.op = "grant_admin",
                        !.room_id = room, !.user_id = target]
           upd == GrantAdminUpdate(rooms, room, target)
       IN /\ rooms' = upd.rooms
          /\ RoomCallEnds(p, call, upd.result)
    /\ UnchangedNonRoom

\* other_admins of leave_room, after the new admin was appended.
OtherAdmins(doc, user, new_admin) ==
    ((doc.admins \ {user}) \cap MemberIds(doc.members))
        \cup (IF new_admin # "" THEN {new_admin} ELSE {})

\* The checks of leave_room on the document read: the error raised, "noop"
\* for a user who is not a member, or the update to run.
LeaveDecisionNoLastAdminCheck(doc, user, new_admin) ==
    IF user \notin MemberIds(doc.members) THEN "noop"
    ELSE IF user \notin doc.admins THEN "pull_member"
    ELSE "pull_admin"

LeaveDecisionNonMemberFails(doc, user, new_admin) ==
    IF user \notin MemberIds(doc.members) THEN "ValueError: not a member"
    ELSE IF user \notin doc.admins THEN "pull_member"
    ELSE IF new_admin # "" /\ new_admin = user
    THEN "ValueError: transfer to yourself"
    ELSE IF new_admin # "" /\ new_admin \notin MemberIds(doc.members)
    THEN "ValueError: new admin not a member"
    ELSE IF OtherAdmins(doc, user, new_admin) = {}
    THEN "ValueError: last admin"
    ELSE "pull_admin"

LeaveDecision(doc, user, new_admin) ==
    IF user \notin MemberIds(doc.members) THEN "noop"
    ELSE IF user \notin doc.admins THEN "pull_member"
    ELSE IF new_admin # "" /\ new_admin = user
    THEN "ValueError: transfer to yourself"
    ELSE IF new_admin # "" /\ new_admin \notin MemberIds(doc.members)
    THEN "ValueError: new admin not a member"
    ELSE IF OtherAdmins(doc, user, new_admin) = {}
    THEN "ValueError: last admin"
    ELSE "pull_admin"

\* leave_room(room_id, user_id, new_admin_user_id), up to the checks on the
\* document read.
LeaveRoomRead(p, room, user, new_admin) ==
    /\ room_calls[p].pc = "idle"
    /\ LET call == [IdleRoomCall EXCEPT !.op = "leave_room", !.room_id = room,
                        !.user_id = user, !.new_admin = new_admin]
       IN IF room \notin DOMAIN rooms
          THEN RoomCallEnds(p, call, "None")
          ELSE LET d == LeaveDecision(rooms[room], user, new_admin) IN
               IF d = "noop" THEN RoomCallEnds(p, call, "ok")
               ELSE IF d \in {"pull_admin", "pull_member"}
               THEN RoomCallGoes(p, call, d)
               ELSE RoomCallEnds(p, call, d)
    /\ UNCHANGED rooms
    /\ UnchangedNonRoom

\* leave_room of an admin: $pull of the user from members and from admins;
\* with a new admin given and the room found, the $addToSet follows.
LeavePullAdmin(p) ==
    /\ room_calls[p].op = "leave_room" /\ room_calls[p].pc = "pull_admin"
    /\ LET call == room_calls[p] IN
       IF call.room_id \notin DOMAIN rooms
       THEN /\ RoomCallEnds(p, call, "None")
            /\ UNCHANGED rooms
       ELSE /\ rooms' = [rooms EXCEPT ![call.room_id] =
                  [@ EXCEPT !.members = PullMember(@, call.user_id),
                            !.admins = @ \ {call.user_id}]]
            /\ IF call.new_admin # ""
               THEN RoomCallGoes(p, call, "add_admin")
               ELSE RoomCallEnds(p, call, "ok")
    /\ UnchangedNonRoom

LeaveAddAdminSkipped(p) ==
    /\ room_calls[p].op = "leave_room" /\ room_calls[p].pc = "add_admin"
    /\ RoomCallEnds(p, room_calls[p], "ok")
    /\ UNCHANGED rooms
    /\ UnchangedNonRoom

\* leave_room of an admin: {"$addToSet": {"admins": new_admin_user_id}} under
\* the filter {"_id"}.
LeaveAddAdmin(p) ==
    /\ room_calls[p].op = "leave_room" /\ room_calls[p].pc = "add_admin"
    /\ LET call == room_calls[p] IN
       IF call.room_id \notin DOMAIN rooms
       THEN /\ RoomCallEnds(p, call, "None")
            /\ UNCHANGED rooms
       ELSE /\ rooms' = [rooms EXCEPT ![call.room_id].admins =
                            @ \cup {call.new_admin}]
            /\ RoomCallEnds(p, call, "ok")
    /\ UnchangedNonRoom

\* leave_room of a member who is not an admin: $pull from members.
LeavePullMember(p) ==
    /\ room_calls[p].op = "leave_room" /\ room_calls[p].pc = "pull_member"
    /\ LET call == room_calls[p] IN
       IF call.room_id \notin DOMAIN rooms
       THEN /\ RoomCallEnds(p, call, "None")
            /\ UNCHANGED rooms
       ELSE /\ rooms' = [rooms EXCEPT ![call.room_id].members =
                            PullMember(@, call.user_id)]
            /\ RoomCallEnds(p, call, "ok")
    /\ UnchangedNonRoom

\* The caller takes the result; the coroutine is free for its next call.
RoomCallReturn(p) ==
    /\ room_calls[p].pc = "done"
    /\ room_calls' = [room_calls EXCEPT ![p] = IdleRoomCall]
    /\ UNCHANGED rooms
    /\ UnchangedNonRoom

(***************************************************************************)
(* The rooms router: grant_admin and delete_room                           *)
(***************************************************************************)
\* RoomService.is_admin: find_one({"_id": room_id, "admins": user_id}).
IsAdminAnyone(rs, room, user) == room \in DOMAIN rs

IsAdmin(rs, room, user) == room \in DOMAIN rs /\ user \in rs[room].admins

\* POST /rooms/{room_id}/admins: the is_admin check on the acting user.
ApiGrantAdminCheck(p, room, actor, target) ==
    /\ room_calls[p].pc = "idle"
    /\ LET call == [IdleRoomCall EXCEPT !.op = "api_grant_admin",
                        !.room_id = room, !.actor = actor, !.user_id = target]
       IN IF IsAdmin(rooms, room, actor)
          THEN RoomCallGoes(p, call, "grant")
          ELSE RoomCallEnds(p, call, "403")
    /\ UNCHANGED rooms
    /\ UnchangedNonRoom

\* POST /rooms/{room_id}/admins: service.grant_admin, 404 when it returns
\* None.
ApiGrantAdminGrant(p) ==
    /\ room_calls[p].op = "api_grant_admin" /\ room_calls[p].pc = "grant"
    /\ LET call == room_calls[p]
           upd == GrantAdminUpdate(rooms, call.room_id, call.user_id)
       IN /\ rooms' = upd.rooms
          /\ RoomCallEnds(p, call, IF upd.result = "None" THEN "404" ELSE "200")
    /\ UnchangedNonRoom

\* DELETE /rooms/{room_id}: the is_admin check on the acting user.
ApiDeleteRoomCheck(p, room, actor) ==
    /\ room_calls[p].pc = "idle"
    /\ LET call == [IdleRoomCall EXCEPT !.op = "api_delete_room",
                        !.room_id = room, !.actor = actor]
       IN IF IsAdmin(rooms, room, actor)
          THEN RoomCallGoes(p, call, "delete")
          ELSE RoomCallEnds(p, call, "403")
    /\ UNCHANGED rooms
    /\ UnchangedNonRoom

\* RoomService.delete_room: delete_one({"_id": oid}); False, and 404, when
\* nothing was deleted.
ApiDeleteRoomDelete(p) ==
    /\ room_calls[p].op = "api_delete_room" /\ room_calls[p].pc = "delete"
    /\ LET call == room_calls[p] IN
       IF call.room_id \notin DOMAIN rooms
       THEN /\ RoomCallEnds(p, call, "404")
            /\ UNCHANGED rooms
       ELSE /\ rooms' = [r \in DOMAIN rooms \ {call.room_id} |-> rooms[r]]
            /\ RoomCallGoes(p, call, "cascade")
    /\ UnchangedNonRoom

\* The queue items that stay when those of the room are deleted.  An item's
\* _id is its index in queue_items: NewItemId is the index of a staying item
\* in the collection without the deleted ones, 0 for any other _id.
StayingItems(items, room) == {i \in Indexes(items) : items[i].room_id # room}

NewItemId(items, room, i) ==
    IF i \in StayingItems(items, room)
    THEN Cardinality({j \in StayingItems(items, room) : j <= i})
    ELSE 0

\* queue_items.delete_many({"room_id": oid})
DeleteItemsOfRoom(items, room) ==
    SelectSeq(items, LAMBDA d : d.room_id # room)

\* watch_history.delete_many({"room_id": oid})
DeleteHistoryOfRoom(items, history, room) ==
    LET staying == SelectSeq(history, LAMBDA e : e.room_id # room)
    IN [k \in Indexes(staying) |->
          [staying[k] EXCEPT !.item_id = NewItemId(items, room, @)]]

\* votes.delete_many({"item_id": {"$in": item_ids}}), item_ids the _ids of the
\* room's queue items.
DeleteVotesOfRoom(items, rows, room) ==
    LET staying == {r \in BagToSet(rows) :
                      ~(/\ r.item_id \in Indexes(items)
                        /\ items[r.item_id].room_id = room)}
        Moved(r) == [r EXCEPT !.item_id = NewItemId(items, room, @)]
    IN [x \in {Moved(r) : r \in staying} |->
          rows[CHOOSE r \in staying : Moved(r) = x]]

\* RoomService.delete_room after the room document was deleted: the queue
\* items, the watch history and the votes of the room are deleted.
ApiDeleteRoomCascade(p) ==
    /\ room_calls[p].op = "api_delete_room" /\ room_calls[p].pc = "cascade"
    /\ LET room == room_calls[p].room_id IN
       /\ queue_items' = DeleteItemsOfRoom(queue_items, room)
       /\ watch_history' = DeleteHistoryOfRoom(queue_items, watch_history, room)
       /\ votes' = DeleteVotesOfRoom(queue_items, votes, room)
    /\ RoomCallEnds(p, room_calls[p], "204")
    /\ UNCHANGED <<rooms, vote_calls, add_calls, add_locks, select_call, clock,
                   hub_vars, watch_calls,
                react_vars, read_call>>

(***************************************************************************)
(* RoomService.delete_room await by await, as other requests see it.       *)
(***************************************************************************)
\* The _id of a document after the room's queue items were deleted: the new
\* index of a staying item, and for a deleted item the negative of its old
\* index, an _id that no stored item has.
IdAfterDelete(items, room, i) ==
    IF i \notin Indexes(items) THEN i
    ELSE IF items[i].room_id = room THEN 0 - i
    ELSE NewItemId(items, room, i)

\* item_ids = await self.db.queue_items.distinct("_id", {"room_id": oid})
DeleteRoomDistinct(p) ==
    /\ room_calls[p].op = "api_delete_room" /\ room_calls[p].pc = "cascade"
    /\ room_calls' = [room_calls EXCEPT
          ![p].item_ids = {i \in Indexes(queue_items) :
                              queue_items[i].room_id = room_calls[p].room_id},
          ![p].pc = "delete_items"]
    /\ UNCHANGED rooms
    /\ UnchangedNonRoom

\* await self.db.queue_items.delete_many({"room_id": oid}); the _ids held by
\* vote rows, history entries and calls in progress are those of the same
\* documents as before.
DeleteRoomItems(p) ==
    /\ room_calls[p].op = "api_delete_room"
    /\ room_calls[p].pc = "delete_items"
    /\ LET room == room_calls[p].room_id
           NewId(i) == IdAfterDelete(queue_items, room, i)
       IN /\ queue_items' = DeleteItemsOfRoom(queue_items, room)
          /\ watch_history' = [k \in Indexes(watch_history) |->
                [watch_history[k] EXCEPT !.item_id = NewId(@)]]
          /\ votes' = [x \in {[r EXCEPT !.item_id = NewId(@)] :
                                 r \in BagToSet(votes)} |->
                          votes[CHOOSE r \in BagToSet(votes) :
                                   [r EXCEPT !.item_id = NewId(@)] = x]]
          /\ room_calls' = [q \in Procs |->
                [room_calls[q] EXCEPT
                    !.item_ids = {NewId(i) : i \in @},
                    !.pc = IF q = p THEN "delete_history" ELSE @]]
          /\ add_calls' = [q \in Procs |->
                [add_calls[q] EXCEPT !.result = NewId(@)]]
    /\ UNCHANGED <<rooms, vote_calls, add_locks, select_call, clock, hub_vars,
                   watch_calls, react_vars, read_call>>

\* await self.db.watch_history.delete_many({"room_id": oid}); with no item
\* ids read, delete_room returns True here.
DeleteRoomHistory(p) ==
    /\ room_calls[p].op = "api_delete_room"
    /\ room_calls[p].pc = "delete_history"
    /\ watch_history' = SelectSeq(watch_history,
                            LAMBDA e : e.room_id # room_calls[p].room_id)
    /\ IF room_calls[p].item_ids = {}
       THEN RoomCallEnds(p, room_calls[p], "204")
       ELSE RoomCallGoes(p, room_calls[p], "delete_votes")
    /\ UNCHANGED <<rooms, queue_items, votes, vote_calls, add_calls, add_locks,
                   select_call, clock, hub_vars, watch_calls, react_vars,
                   read_call>>

\* await self.db.votes.delete_many({"item_id": {"$in": item_ids}}) and
\* return True.
DeleteRoomVotes(p) ==
    /\ room_calls[p].op = "api_delete_room"
    /\ room_calls[p].pc = "delete_votes"
    /\ votes' = [r \in {x \in BagToSet(votes) :
                           x.item_id \notin room_calls[p].item_ids} |->
                    votes[r]]
    /\ RoomCallEnds(p, room_calls[p], "204")
    /\ UNCHANGED <<rooms, queue_items, watch_history, vote_calls, add_calls,
                   add_locks, select_call, clock, hub_vars, watch_calls,
                   react_vars, read_call>>

(***************************************************************************)
(* The ConnectionManager of the websocket router.  A send on a WebSocket   *)
(* takes effect when it is called and the caller may then be suspended in  *)
(* it; a step of a coroutine runs from one such suspension to the next.    *)
(***************************************************************************)
\* What a client sends on its connection (handle_client_message).
ClientMessages ==
    {"pong", "vote", "queue_add", "selection", "reaction",
     "voting_round_start", "get_presence"}

\* The type of the message handle_client_message broadcasts for a client
\* message, "" when it broadcasts none.
RelayedAs(msg_type) ==
    CASE msg_type = "vote" -> "vote_update"
      [] msg_type = "queue_add" -> "queue_update"
      [] msg_type = "selection" -> "selection"
      [] msg_type = "reaction" -> "reaction_update"
      [] msg_type = "voting_round_start" -> "voting_round_start"
      [] OTHER -> ""

RelayExcludesNobody(msg_type) == FALSE

\* The messages handle_client_message broadcasts with exclude=websocket.
RelayExcludesSender(msg_type) == msg_type \in {"vote", "queue_add", "reaction"}

\* resolved_user_name of websocket_endpoint: alice is a member of the room
\* with a display name; for bob neither the query string nor the room's
\* member list gives one.
ResolvedUserName(user) == IF user = "alice" THEN "n" ELSE ""

HasUserConnectionNever(ac, um, room, user) == FALSE

\* _has_user_connection(room_id, user_id)
HasUserConnection(ac, um, room, user) ==
    /\ room \in DOMAIN ac
    /\ \E w \in ac[room] : w \in DOMAIN um /\ um[w] = user

\* get_room_users(room_id): the list, as the number of times it names each
\* user.
GetRoomUsers(ac, um, room) ==
    IF room \notin DOMAIN ac THEN EmptyDict
    ELSE [u \in {um[w] : w \in {x \in ac[room] : x \in DOMAIN um}} |-> 1]

\* The set object a broadcast iterates over: the room's set when the broadcast
\* began, which is empty and no longer in active_connections once a disconnect
\* deleted the room's key.
IteratedSet(b, ac) ==
    IF b.detached \/ b.room_id \notin DOMAIN ac THEN {} ELSE ac[b.room_id]

\* connection.send_json(message) inside broadcast: a send to a client that is
\* gone raises and the connection is put in `disconnected`.
SendJson(b, w, socks) ==
    [b EXCEPT !.visited = @ \cup {w},
              !.disconnected = IF socks[w] = "gone" THEN @ \cup {w} ELSE @]

CleanUpNothing(b, ac, um, unm) ==
    [status |-> "done", bcast |-> b, ac |-> ac, um |-> um, unm |-> unm]

\* broadcast, "Clean up disconnected sockets": the loop over `disconnected`.
CleanUp(b, ac, um, unm) ==
    IF b.disconnected = {}
    THEN [status |-> "done", bcast |-> b, ac |-> ac, um |-> um, unm |-> unm]
    ELSE IF b.room_id \notin DOMAIN ac
    THEN [status |-> "KeyError", bcast |-> b, ac |-> ac, um |-> um, unm |-> unm]
    ELSE [status |-> "done", bcast |-> b,
          ac |-> [ac EXCEPT ![b.room_id] = @ \ b.disconnected],
          um |-> Pop(um, b.disconnected),
          unm |-> Pop(unm, b.disconnected)]

\* broadcast from a suspension in send_json (or from its start) to the next
\* one, or to its end: the ways the loop over the room's set can go on.  The
\* set iterator raises when the set's size is not the one it started with;
\* over a set of that size and other content it visits some of the
\* connections it has not visited, in the order of the set's table.
BroadcastGoesOn(b, ac, um, unm, socks) ==
    LET iterated == IteratedSet(b, ac)
        ahead == (iterated \ b.visited) \ {b.exclude}
    IN IF Cardinality(iterated) # Cardinality(b.snapshot)
       THEN {[status |-> "RuntimeError", bcast |-> b,
              ac |-> ac, um |-> um, unm |-> unm]}
       ELSE {[status |-> "sending", bcast |-> SendJson(b, w, socks),
              ac |-> ac, um |-> um, unm |-> unm] : w \in ahead}
            \cup (IF ahead = {} \/ iterated # b.snapshot
                  THEN {CleanUp(b, ac, um, unm)} ELSE {})

\* broadcast(room_id, message, exclude) from its call to its first suspension
\* or to its end.
BroadcastBegins(room, type, user, exclude, ac, um, unm, socks) ==
    IF room \notin DOMAIN ac
    THEN {[status |-> "done", bcast |-> NoBroadcast,
           ac |-> ac, um |-> um, unm |-> unm]}
    ELSE BroadcastGoesOn([NoBroadcast EXCEPT !.room_id = room, !.type = type,
                              !.user_id = user, !.exclude = exclude,
                              !.snapshot = ac[room]],
                         ac, um, unm, socks)

\* The presence broadcasts made, after manager.broadcast was called with a
\* message of this type about this user.
PresenceSentAfter(sent, room, type, user) ==
    [sent EXCEPT ![<<room, user>>] = Append(@, type)]

\* A broadcast of a coroutine goes on iterating a set that a disconnect has
\* taken out of active_connections.
Detached(b, room, emptied) ==
    IF emptied /\ b.type # "" /\ b.room_id = room
    THEN [b EXCEPT !.detached = TRUE] ELSE b

UnchangedNonHub ==
    UNCHANGED <<queue_items, votes, watch_history, vote_calls, add_calls,
                add_locks, select_call, clock, rooms, room_calls, watch_calls,
                react_vars, read_call>>

\* The registry and the coroutines after a step of the hub.  The server
\* closes the socket of an endpoint that has returned or raised.
HubBecomes(ac, um, unm, plt, lts, calls) ==
    /\ active_connections' = ac
    /\ user_mapping' = um
    /\ user_name_mapping' = unm
    /\ pending_leave_tasks' = plt
    /\ leave_tasks' = lts
    /\ ws_calls' = calls
    /\ sockets' = [w \in WebSockets |->
                     IF calls[w].pc \in {"crashed", "closed", "refused"}
                     THEN "gone" ELSE sockets[w]]

\* websocket_endpoint(websocket, room_id, user_id) is called: the display name
\* is resolved and connect awaits websocket.accept().  WebSockets are opened
\* in the order of their numbers.
WsOpen(w, room, user) ==
    /\ ws_calls[w].pc = "new"
    /\ \A x \in WebSockets : x < w => ws_calls[x].pc # "new"
    /\ ws_calls' = [ws_calls EXCEPT ![w] =
                      [@ EXCEPT !.pc = "accept", !.room_id = room,
                                !.user_id = user,
                                !.user_name = ResolvedUserName(user)]]
    /\ UNCHANGED <<active_connections, user_mapping, user_name_mapping,
                   pending_leave_tasks, leave_tasks, sockets, presence_sent>>
    /\ UnchangedNonHub

\* websocket_endpoint after connect returned: the presence message is sent to
\* the new connection, the heartbeat task is created and the loop awaits
\* receive_json.  A failed send is raised out of the endpoint, before its try.
AfterConnect(call, w, socks) ==
    IF socks[w] = "gone"
    THEN [call EXCEPT !.pc = "crashed", !.bcast = NoBroadcast]
    ELSE [call EXCEPT !.pc = "receive", !.heartbeat = "running",
                      !.bcast = NoBroadcast]

\* The endpoint coroutine after a step of the broadcast inside connect.
ConnectGoesOn(call, w, o, socks) ==
    IF o.status = "sending"
    THEN [call EXCEPT !.pc = "connect_broadcast", !.bcast = o.bcast]
    ELSE IF o.status = "done"
    THEN AfterConnect(call, w, socks)
    ELSE [call EXCEPT !.pc = "crashed", !.bcast = NoBroadcast]

\* connect after websocket.accept(): the connection is registered, a pending
\* leave of the user is cancelled, and user_joined is broadcast to the others
\* when the user had no connection in the room.
Connect(w) ==
    /\ ws_calls[w].pc = "accept"
    /\ LET call == ws_calls[w]
           room == call.room_id
           user == call.user_id
           leave_key == <<room, user>>
           ac1 == IF room \in DOMAIN active_connections
                  THEN active_connections
                  ELSE Put(active_connections, room, {})
           was_online == HasUserConnection(ac1, user_mapping, room, user)
           pending == leave_key \in DOMAIN pending_leave_tasks
           lts == IF pending
                  THEN [leave_tasks EXCEPT
                          ![pending_leave_tasks[leave_key]].cancelled = TRUE]
                  ELSE leave_tasks
           ac2 == [ac1 EXCEPT ![room] = @ \cup {w}]
           um2 == Put(user_mapping, w, user)
           unm2 == IF call.user_name # ""
                   THEN Put(user_name_mapping, w, call.user_name)
                   ELSE user_name_mapping
       IN IF sockets[w] = "gone"
          THEN /\ ws_calls' = [ws_calls EXCEPT ![w].pc = "refused"]
               /\ UNCHANGED <<active_connections, user_mapping,
                              user_name_mapping, pending_leave_tasks,
                              leave_tasks, sockets, presence_sent>>
          ELSE IF was_online
          THEN /\ HubBecomes(ac2, um2, unm2,
                             Pop(pending_leave_tasks, {leave_key}), lts,
                             [ws_calls EXCEPT ![w] =
                                AfterConnect(call, w, sockets)])
               /\ UNCHANGED presence_sent
          ELSE \E o \in BroadcastBegins(room, "user_joined", user, w,
                                        ac2, um2, unm2, sockets) :
                 /\ HubBecomes(o.ac, o.um, o.unm,
                               Pop(pending_leave_tasks, {leave_key}), lts,
                               [ws_calls EXCEPT ![w] =
                                  ConnectGoesOn(call, w, o, sockets)])
                 /\ presence_sent' = PresenceSentAfter(presence_sent, room,
                                                       "user_joined", user)
    /\ UnchangedNonHub

\* connect, resumed in the broadcast of user_joined.
ConnectBroadcastStep(w) ==
    /\ ws_calls[w].pc = "connect_broadcast"
    /\ \E o \in BroadcastGoesOn(ws_calls[w].bcast, active_connections,
                                user_mapping, user_name_mapping, sockets) :
         HubBecomes(o.ac, o.um, o.unm, pending_leave_tasks, leave_tasks,
                    [ws_calls EXCEPT ![w] =
                       ConnectGoesOn(ws_calls[w], w, o, sockets)])
    /\ UNCHANGED presence_sent
    /\ UnchangedNonHub

\* disconnect after its await, or without one: the connection is discarded
\* from the room's set, an empty set is deleted, and the leave task is created
\* when the user has no connection left in the room.
DisconnectGoesOn(w, call, uid, ac, um, unm, plt, lts, calls) ==
    LET room == call.room_id
        present == room \in DOMAIN ac
        ac1 == IF present THEN [ac EXCEPT ![room] = @ \ {w}] ELSE ac
        emptied == present /\ ac1[room] = {}
        ac2 == IF emptied THEN Pop(ac1, {room}) ELSE ac1
        schedule == present /\ uid # "" /\ ~HasUserConnection(ac2, um, room, uid)
    IN [ac |-> ac2, um |-> um, unm |-> unm,
        plt |-> IF schedule THEN Put(plt, <<room, uid>>, w) ELSE plt,
        lts |-> [t \in WebSockets |->
                   IF t = w /\ schedule
                   THEN [NoLeaveTask EXCEPT !.pc = "sleep", !.room_id = room,
                                            !.user_id = uid]
                   ELSE [lts[t] EXCEPT !.bcast = Detached(@, room, emptied)]],
        calls |-> [x \in WebSockets |->
                     IF x = w
                     THEN [IdleWsCall EXCEPT !.pc = "closed",
                                             !.room_id = room,
                                             !.user_id = call.user_id]
                     ELSE [calls[x] EXCEPT
                             !.bcast = Detached(@, room, emptied)]]]

\* The finally of websocket_endpoint: heartbeat_task.cancel() and
\* manager.disconnect(websocket, room_id), up to its await of
\* resolve_member_name when the connection has a user and no stored name.
Disconnect(w, call, ac, um, unm, plt, lts, calls) ==
    LET uid == IF w \in DOMAIN um THEN um[w] ELSE ""
        uname == IF w \in DOMAIN unm THEN unm[w] ELSE ""
        call1 == [call EXCEPT !.bcast = NoBroadcast,
                              !.heartbeat = IF @ = "running"
                                            THEN "cancelled" ELSE @]
    IN IF uname = "" /\ uid # ""
       THEN [ac |-> ac, um |-> Pop(um, {w}), unm |-> Pop(unm, {w}),
             plt |-> plt, lts |-> lts,
             calls |-> [calls EXCEPT ![w] =
                          [call1 EXCEPT !.pc = "disconnect_resolve",
                                        !.popped_user = uid]]]
       ELSE DisconnectGoesOn(w, call1, uid, ac, Pop(um, {w}), Pop(unm, {w}),
                             plt, lts, calls)

\* The hub after the endpoint of w entered its finally.
Disconnects(w) ==
    LET d == Disconnect(w, ws_calls[w], active_connections, user_mapping,
                        user_name_mapping, pending_leave_tasks, leave_tasks,
                        ws_calls)
    IN HubBecomes(d.ac, d.um, d.unm, d.plt, d.lts, d.calls)

\* The loop of websocket_endpoint receives a message of the client and
\* handle_client_message runs up to its first suspension.
ClientMessage(w, msg_type) ==
    /\ ws_calls[w].pc = "receive"
    /\ sockets[w] = "open"
    /\ LET call == ws_calls[w] IN
       IF msg_type = "get_presence"
       THEN /\ ws_calls' = [ws_calls EXCEPT ![w].presence_reply =
                              GetRoomUsers(active_connections, user_mapping,
                                           call.room_id)]
            /\ UNCHANGED <<active_connections, user_mapping,
                           user_name_mapping, pending_leave_tasks, leave_tasks,
                           sockets>>
       ELSE IF RelayedAs(msg_type) = ""
       THEN UNCHANGED <<active_connections, user_mapping, user_name_mapping,
                        pending_leave_tasks, leave_tasks, sockets, ws_calls>>
       ELSE \E o \in BroadcastBegins(call.room_id, RelayedAs(msg_type),
                                     call.user_id,
                                     IF RelayExcludesSender(msg_type)
                                     THEN w ELSE 0,
                                     active_connections, user_mapping,
                                     user_name_mapping, sockets) :
              HubBecomes(o.ac, o.um, o.unm, pending_leave_tasks, leave_tasks,
                         [ws_calls EXCEPT ![w] =
                            IF o.status = "sending"
                            THEN [call EXCEPT !.pc = "handle_broadcast",
                                              !.bcast = o.bcast]
                            ELSE call])
    /\ UNCHANGED presence_sent
    /\ UnchangedNonHub

\* handle_client_message, resumed in its broadcast.  An exception of the
\* broadcast is logged by the endpoint, which goes to its finally.
HandleBroadcastStep(w) ==
    /\ ws_calls[w].pc = "handle_broadcast"
    /\ \E o \in BroadcastGoesOn(ws_calls[w].bcast, active_connections,
                                user_mapping, user_name_mapping, sockets) :
         IF o.status = "sending"
         THEN HubBecomes(o.ac, o.um, o.unm, pending_leave_tasks, leave_tasks,
                         [ws_calls EXCEPT ![w].bcast = o.bcast])
         ELSE IF o.status = "done"
         THEN HubBecomes(o.ac, o.um, o.unm, pending_leave_tasks, leave_tasks,
                         [ws_calls EXCEPT ![w].pc = "receive",
                                          ![w].bcast = NoBroadcast])
         ELSE Disconnects(w)
    /\ UNCHANGED presence_sent
    /\ UnchangedNonHub

\* receive_json raises WebSocketDisconnect: the client is gone.
ReceiveDisconnect(w) ==
    /\ ws_calls[w].pc = "receive"
    /\ sockets[w] = "gone"
    /\ Disconnects(w)
    /\ UNCHANGED presence_sent
    /\ UnchangedNonHub

\* wait_for(receive_json, 2 * ws_heartbeat_interval) times out: the client was
\* silent that long.  The endpoint sends a ping and leaves the loop only when
\* the send raises.
ReceiveTimeout(w) ==
    /\ ws_calls[w].pc = "receive"
    /\ ws_calls[w].timeouts < MaxTimeouts
    /\ IF sockets[w] = "gone"
       THEN Disconnects(w)
       ELSE /\ ws_calls' = [ws_calls EXCEPT ![w].timeouts = @ + 1]
            /\ UNCHANGED <<active_connections, user_mapping,
                           user_name_mapping, pending_leave_tasks, leave_tasks,
                           sockets>>
    /\ UNCHANGED presence_sent
    /\ UnchangedNonHub

\* disconnect, resumed after resolve_member_name.
DisconnectResolved(w) ==
    /\ ws_calls[w].pc = "disconnect_resolve"
    /\ LET d == DisconnectGoesOn(w, ws_calls[w], ws_calls[w].popped_user,
                                 active_connections, user_mapping,
                                 user_name_mapping, pending_leave_tasks,
                                 leave_tasks, ws_calls)
       IN HubBecomes(d.ac, d.um, d.unm, d.plt, d.lts, d.calls)
    /\ UNCHANGED presence_sent
    /\ UnchangedNonHub

\* send_heartbeat after its sleep: the task ends when the send raises.
SendHeartbeat(w) ==
    /\ ws_calls[w].heartbeat = "running"
    /\ ws_calls' = [ws_calls EXCEPT ![w].heartbeat =
                      IF sockets[w] = "gone" THEN "stopped" ELSE @]
    /\ UNCHANGED <<active_connections, user_mapping, user_name_mapping,
                   pending_leave_tasks, leave_tasks, sockets, presence_sent>>
    /\ UnchangedNonHub

\* The client of a connection goes away: the browser tab is closed or
\* reloaded, or the network drops.
ClientDrops(w) ==
    /\ ws_calls[w].pc \in {"accept", "connect_broadcast", "receive",
                           "handle_broadcast"}
    /\ sockets[w] = "open"
    /\ sockets' = [sockets EXCEPT ![w] = "gone"]
    /\ UNCHANGED <<active_connections, user_mapping, user_name_mapping,
                   pending_leave_tasks, leave_tasks, ws_calls, presence_sent>>
    /\ UnchangedNonHub

\* The leave task after a step that ends it: the finally pops its key.
LeaveTaskEnds(t, o) ==
    HubBecomes(o.ac, o.um, o.unm,
               Pop(pending_leave_tasks,
                   {<<leave_tasks[t].room_id, leave_tasks[t].user_id>>}),
               [leave_tasks EXCEPT ![t] = [NoLeaveTask EXCEPT !.pc = "done"]],
               ws_calls)

\* The hub as it is.
HubAsIs ==
    [status |-> "done", bcast |-> NoBroadcast, ac |-> active_connections,
     um |-> user_mapping, unm |-> user_name_mapping]

LeaveTimerFiresUnchecked(t) ==
    /\ leave_tasks[t].pc = "sleep"
    /\ ~leave_tasks[t].cancelled
    /\ LET task == leave_tasks[t] IN
       \E o \in BroadcastBegins(task.room_id, "user_left", task.user_id,
                                0, active_connections, user_mapping,
                                user_name_mapping, sockets) :
              /\ IF o.status = "sending"
                 THEN HubBecomes(o.ac, o.um, o.unm, pending_leave_tasks,
                                 [leave_tasks EXCEPT ![t].pc = "broadcast",
                                                     ![t].bcast = o.bcast],
                                 ws_calls)
                 ELSE LeaveTaskEnds(t, o)
              /\ presence_sent' =
                    PresenceSentAfter(presence_sent, task.room_id,
                                      "user_left", task.user_id)
    /\ UnchangedNonHub

\* _broadcast_left_after_grace after its sleep of leave_grace_seconds: nothing
\* is sent when the user has a connection in the room, else user_left is
\* broadcast.
LeaveTimerFires(t) ==
    /\ leave_tasks[t].pc = "sleep"
    /\ ~leave_tasks[t].cancelled
    /\ LET task == leave_tasks[t] IN
       IF HasUserConnection(active_connections, user_mapping,
                            task.room_id, task.user_id)
       THEN /\ LeaveTaskEnds(t, HubAsIs)
            /\ UNCHANGED presence_sent
       ELSE \E o \in BroadcastBegins(task.room_id, "user_left", task.user_id,
                                     0, active_connections, user_mapping,
                                     user_name_mapping, sockets) :
              /\ IF o.status = "sending"
                 THEN HubBecomes(o.ac, o.um, o.unm, pending_leave_tasks,
                                 [leave_tasks EXCEPT ![t].pc = "broadcast",
                                                     ![t].bcast = o.bcast],
                                 ws_calls)
                 ELSE LeaveTaskEnds(t, o)
              /\ presence_sent' =
                    PresenceSentAfter(presence_sent, task.room_id,
                                      "user_left", task.user_id)
    /\ UnchangedNonHub

\* _broadcast_left_after_grace, resumed in its broadcast.  An exception of the
\* broadcast ends the task.
LeaveBroadcastStep(t) ==
    /\ leave_tasks[t].pc = "broadcast"
    /\ ~leave_tasks[t].cancelled
    /\ \E o \in BroadcastGoesOn(leave_tasks[t].bcast, active_connections,
                                user_mapping, user_name_mapping, sockets) :
         IF o.status = "sending"
         THEN HubBecomes(o.ac, o.um, o.unm, pending_leave_tasks,
                         [leave_tasks EXCEPT ![t].bcast = o.bcast], ws_calls)
         ELSE LeaveTaskEnds(t, o)
    /\ UNCHANGED presence_sent
    /\ UnchangedNonHub

\* A cancelled leave task is resumed with CancelledError, in its sleep or in a
\* send of its broadcast, and returns through its finally.
LeaveTaskCancelled(t) ==
    /\ leave_tasks[t].pc \in {"sleep", "broadcast"}
    /\ leave_tasks[t].cancelled
    /\ LeaveTaskEnds(t, HubAsIs)
    /\ UNCHANGED presence_sent
    /\ UnchangedNonHub

\* A connection is opened and registered.
OpenStep(w, room_ids) ==
    \/ \E room \in room_ids, user \in Users : WsOpen(w, room, user)
    \/ Connect(w)
    \/ ConnectBroadcastStep(w)

\* A client goes away, its connection is deregistered and the leave task runs.
CloseStep(w) ==
    \/ ClientDrops(w)
    \/ ReceiveDisconnect(w)
    \/ DisconnectResolved(w)
    \/ LeaveTimerFires(w)
    \/ LeaveBroadcastStep(w)
    \/ LeaveTaskCancelled(w)

\* A client message is handled.
RelayStep(w, msg_types) ==
    \/ \E msg_type \in msg_types : ClientMessage(w, msg_type)
    \/ HandleBroadcastStep(w)

\* Connections of one room come and go.
NextHub ==
    \E w \in WebSockets :
        OpenStep(w, {"r1"}) \/ CloseStep(w)

SpecHub == Init /\ [][NextHub]_vars

\* The event loop runs every coroutine that can go on; clients open and drop
\* connections as they like.
HubFairness ==
    \A w \in WebSockets :
        /\ WF_vars(Connect(w))
        /\ WF_vars(ConnectBroadcastStep(w))
        /\ WF_vars(ReceiveDisconnect(w))
        /\ WF_vars(DisconnectResolved(w))
        /\ WF_vars(LeaveTimerFires(w))
        /\ WF_vars(LeaveBroadcastStep(w))
        /\ WF_vars(LeaveTaskCancelled(w))

SpecHubLive == SpecHub /\ HubFairness

\* The liveness of a connection is watched.
AliveStep(w) ==
    \/ ReceiveTimeout(w)
    \/ SendHeartbeat(w)

\* Connections of one room come and go, and some clients fall silent.
NextHubAlive ==
    \E w \in WebSockets :
        OpenStep(w, {"r1"}) \/ CloseStep(w) \/ AliveStep(w)

SpecHubAlive == Init /\ [][NextHubAlive]_vars

\* Clients of two rooms connect, send messages and go away, their endpoints
\* still waiting on them; one broadcast at a time: while a coroutine is in a
\* broadcast, no other coroutine runs.
NextHubRelay ==
    \E w \in WebSockets :
        \/ /\ \A x \in WebSockets \ {w} : ws_calls[x].bcast = NoBroadcast
           /\ (OpenStep(w, Rooms) \/ RelayStep(w, ClientMessages))
        \/ ClientDrops(w)

SpecHubRelay == Init /\ [][NextHubRelay]_vars

(***************************************************************************)
(* The status of queue items: QueueService.update_item, mark_watching,     *)
(* mark_watched, HistoryService.mark_as_watched and the watch request of   *)
(* app/routers/queue.py.                                                   *)
(***************************************************************************)
\* notes of WatchHistoryCreate: None ("") or a text.
NoteTexts == {"", "n"}

\* history_doc of mark_as_watched.
HistoryDoc(room, item, now, notes) ==
    [room_id |-> room, item_id |-> item, watched_at |-> now,
     ratings |-> EmptyDict, notes |-> notes]

ItemIdUniqueNever(history, item) == FALSE

\* The unique index on item_id of watch_history rejects the insert of an
\* entry for this item (DuplicateKeyError).
ItemIdUniqueViolated(history, item) ==
    \E k \in Indexes(history) : history[k].item_id = item

\* collection.find_one({"item_id": item_oid}): the _id of the first entry in
\* natural order, 0 when no entry matches.
FindHistoryByItem(history, item) ==
    LET found == {k \in Indexes(history) : history[k].item_id = item}
    IN IF found = {} THEN 0
       ELSE CHOOSE k \in found : \A x \in found : k <= x

\* {"$set": {"status": status}} on the document {"_id": id}, if there is one.
SetStatus(items, id, status) ==
    IF id \in Indexes(items)
    THEN [items EXCEPT ![id].status = status]
    ELSE items

\* get_room_queue with no status given: {"status": {"$nin": ["removed"]}}.
InDefaultListing(items, id) ==
    id \in Indexes(items) /\ items[id].status \notin {"removed"}

UnchangedNonWatch ==
    UNCHANGED <<votes, vote_calls, add_calls, add_locks, select_call, clock,
                rooms, room_calls, hub_vars, react_vars, read_call>>

\* update_item(item_id, update_data) with a status in update_data: one
\* find_one_and_update.  item_id may name no document.
UpdateItem(i, status) ==
    /\ i \in 1..(Len(queue_items) + 1)
    /\ queue_items' = SetStatus(queue_items, i, status)
    /\ UNCHANGED <<watch_history, watch_calls>>
    /\ UnchangedNonWatch

\* mark_watching(item_id)
MarkWatching(i) == UpdateItem(i, "watching")

\* mark_watched(item_id)
MarkWatched(i) == UpdateItem(i, "watched")

WatchCallBecomes(p, call) ==
    watch_calls' = [watch_calls EXCEPT ![p] = call]

\* mark_as_watched(history_data) is called: item_id may name no document and
\* room_id may be another room's.
MarkAsWatchedBegin(p) ==
    /\ watch_calls[p].pc = "idle"
    /\ \E room \in Rooms, i \in 1..(Len(queue_items) + 1), notes \in NoteTexts :
         WatchCallBecomes(p, [IdleWatchCall EXCEPT
                                 !.op = "mark_as_watched", !.pc = "find_item",
                                 !.room_id = room, !.item_id = i,
                                 !.notes = notes])
    /\ UNCHANGED <<queue_items, watch_history>>
    /\ UnchangedNonWatch

\* queue_collection.find_one({"_id": item_oid, "room_id": room_oid})
MarkAsWatchedFindItem(p) ==
    /\ watch_calls[p].pc = "find_item"
    /\ LET call == watch_calls[p]
           item == FindItemById(queue_items, call.item_id)
       IN IF item # 0 /\ queue_items[item].room_id = call.room_id
          THEN WatchCallBecomes(p, [call EXCEPT !.pc = "insert"])
          ELSE WatchCallBecomes(p, [call EXCEPT !.pc = "done",
                                                !.error = "ValueError"])
    /\ UNCHANGED <<queue_items, watch_history>>
    /\ UnchangedNonWatch

\* collection.insert_one(history_doc), watched_at being utcnow().
MarkAsWatchedInsert(p) ==
    /\ watch_calls[p].pc = "insert"
    /\ LET call == watch_calls[p] IN
       IF ItemIdUniqueViolated(watch_history, call.item_id)
       THEN /\ WatchCallBecomes(p, [call EXCEPT !.pc = "find_existing"])
            /\ UNCHANGED watch_history
       ELSE /\ watch_history' =
                 Append(watch_history,
                        HistoryDoc(call.room_id, call.item_id, clock,
                                   call.notes))
            /\ WatchCallBecomes(p, [call EXCEPT
                                      !.pc = "update_status",
                                      !.result = Len(watch_history) + 1])
    /\ UNCHANGED queue_items
    /\ UnchangedNonWatch

\* except DuplicateKeyError: collection.find_one({"item_id": item_oid}); the
\* entry found is returned, and with none the error is raised again.
MarkAsWatchedFindExisting(p) ==
    /\ watch_calls[p].pc = "find_existing"
    /\ LET call == watch_calls[p]
           existing == FindHistoryByItem(watch_history, call.item_id)
       IN IF existing # 0
          THEN WatchCallBecomes(p, [call EXCEPT !.pc = "done",
                                                !.result = existing])
          ELSE WatchCallBecomes(p, [call EXCEPT !.pc = "done",
                                                !.error = "DuplicateKeyError"])
    /\ UNCHANGED <<queue_items, watch_history>>
    /\ UnchangedNonWatch

\* queue_collection.update_one({"_id": item_oid}, {"$set": {"status":
\* "watched"}}), after which the new entry is returned.
MarkAsWatchedUpdateStatus(p) ==
    /\ watch_calls[p].pc = "update_status"
    /\ queue_items' = SetStatus(queue_items, watch_calls[p].item_id, "watched")
    /\ WatchCallBecomes(p, [watch_calls[p] EXCEPT !.pc = "done"])
    /\ UNCHANGED watch_history
    /\ UnchangedNonWatch

\* POST /{item_id}/watch is requested.
WatchBegin(p) ==
    /\ watch_calls[p].pc = "idle"
    /\ \E i \in 1..(Len(queue_items) + 1), notes \in NoteTexts :
         WatchCallBecomes(p, [IdleWatchCall EXCEPT
                                 !.op = "watch", !.pc = "get_item",
                                 !.item_id = i, !.notes = notes])
    /\ UNCHANGED <<queue_items, watch_history>>
    /\ UnchangedNonWatch

\* queue_service.get_item(item_id): 404 when there is no such item.
WatchGetItem(p) ==
    /\ watch_calls[p].pc = "get_item"
    /\ LET call == watch_calls[p]
           item == FindItemById(queue_items, call.item_id)
       IN IF item # 0
          THEN WatchCallBecomes(p, [call EXCEPT
                                      !.pc = "mark_watching",
                                      !.room_id = queue_items[item].room_id])
          ELSE WatchCallBecomes(p, [call EXCEPT !.pc = "done",
                                                !.error = "404"])
    /\ UNCHANGED <<queue_items, watch_history>>
    /\ UnchangedNonWatch

\* queue_service.mark_watching(item_id), and then mark_as_watched is called
\* with the room_id of the item read.
WatchMarkWatching(p) ==
    /\ watch_calls[p].pc = "mark_watching"
    /\ queue_items' = SetStatus(queue_items, watch_calls[p].item_id, "watching")
    /\ WatchCallBecomes(p, [watch_calls[p] EXCEPT !.pc = "find_item"])
    /\ UNCHANGED watch_history
    /\ UnchangedNonWatch

\* The call returns or raises and the coroutine is free for another call.
WatchReturn(p) ==
    /\ watch_calls[p].pc = "done"
    /\ WatchCallBecomes(p, IdleWatchCall)
    /\ UNCHANGED <<queue_items, watch_history>>
    /\ UnchangedNonWatch

WatchStep(p) ==
    \/ MarkAsWatchedBegin(p)
    \/ MarkAsWatchedFindItem(p)
    \/ MarkAsWatchedInsert(p)
    \/ MarkAsWatchedFindExisting(p)
    \/ MarkAsWatchedUpdateStatus(p)
    \/ WatchBegin(p)
    \/ WatchGetItem(p)
    \/ WatchMarkWatching(p)
    \/ WatchReturn(p)

\* A room whose queue holds freshly added items, none watched.
InitWatch ==
    /\ queue_items = [k \in 1..MaxWatchItems |->
                        ItemDoc("r1", [j \in 1..k |-> "a"], 0, "alice", 1)]
    /\ votes = EmptyBag
    /\ watch_history = <<>>
    /\ vote_calls = [p \in Procs |-> IdleVoteCall]
    /\ add_calls = [p \in Procs |-> IdleAddCall]
    /\ add_locks = <<>>
    /\ select_call = NoSelectCall
    /\ clock = 1
    /\ rooms = MovieRoom
    /\ room_calls = [p \in Procs |-> IdleRoomCall]
    /\ HubInit
    /\ watch_calls = [p \in Procs |-> IdleWatchCall]
    /\ ReactInit
    /\ read_call = NoReadCall

\* Concurrent mark_as_watched calls and watch requests, status updates and
\* removals, while time passes.
NextWatch ==
    \/ \E p \in Procs : WatchStep(p)
    \/ \E i \in 1..MaxWatchItems : MarkWatching(i)
    \/ \E i \in 1..MaxWatchItems : MarkWatched(i)
    \/ \E i \in 1..MaxWatchItems : RemoveItem(i)
    \/ \E i \in 1..MaxWatchItems, status \in Statuses : UpdateItem(i, status)
    \/ Tick

SpecWatch == InitWatch /\ [][NextWatch]_vars

\* Requests that follow one another: a call starts only when no other call is
\* in progress, and nothing but mark_as_watched and the watch request runs.
NextWatchSeq ==
    \/ \E p \in Procs :
          /\ \A q \in Procs \ {p} : watch_calls[q].pc = "idle"
          /\ WatchStep(p)
    \/ Tick

SpecWatchSeq == InitWatch /\ [][NextWatchSeq]_vars

(***************************************************************************)
(* ReactionService                                                         *)
(***************************************************************************)
\* ALLOWED_REACTIONS, two of them.
AllowedReactions == {"fire", "sleepy"}

\* The reactions a request may name: the allowed ones and one that is not.
ReactionKinds == AllowedReactions \cup {"wave"}

\* reactions_collection.find_one(query, {"_id": 1}): the _id of a document of
\* the triple, 0 when there is none.
FindNoReaction(rows, item, user, kind) == 0

FindReaction(rows, item, user, kind) ==
    LET found == {r \in rows : /\ r.item_id = item /\ r.user_id = user
                               /\ r.reaction = kind}
    IN IF found = {} THEN 0
       ELSE (CHOOSE r \in found : \A x \in found : r.id <= x.id).id

ReactionUniqueNever(rows, item, user, kind) == FALSE

\* The unique index item_user_reaction_unique rejects the insert of a
\* document of this triple (DuplicateKeyError).
ReactionUniqueViolated(rows, item, user, kind) ==
    \E r \in rows : /\ r.item_id = item /\ r.user_id = user
                    /\ r.reaction = kind

UnchangedNonReact ==
    UNCHANGED <<queue_items, votes, watch_history, vote_calls, add_calls,
                add_locks, select_call, clock, rooms, room_calls, hub_vars,
                watch_calls, read_call>>

ReactCallBecomes(p, call) ==
    react_calls' = [react_calls EXCEPT ![p] = call]

\* toggle_reaction(item_id, user_id, reaction) is called: a reaction that is
\* not allowed raises at once; item_id may name no document.
ToggleBegin(p) ==
    /\ react_calls[p].pc = "idle"
    /\ \E i \in 1..(Len(queue_items) + 1), u \in Users, kind \in ReactionKinds :
         LET call == [IdleReactCall EXCEPT !.item_id = i, !.user_id = u,
                                           !.reaction = kind]
         IN IF kind \in AllowedReactions
            THEN ReactCallBecomes(p, [call EXCEPT !.pc = "find_item"])
            ELSE ReactCallBecomes(p, [call EXCEPT !.pc = "done",
                                                  !.error = "ValueError"])
    /\ UNCHANGED <<reactions, reaction_ids>>
    /\ UnchangedNonReact

\* queue_collection.find_one({"_id": item_oid})
ToggleFindItem(p) ==
    /\ react_calls[p].pc = "find_item"
    /\ LET call == react_calls[p] IN
       IF FindItemById(queue_items, call.item_id) # 0
       THEN ReactCallBecomes(p, [call EXCEPT !.pc = "find_existing"])
       ELSE ReactCallBecomes(p, [call EXCEPT !.pc = "done",
                                             !.error = "ValueError"])
    /\ UNCHANGED <<reactions, reaction_ids>>
    /\ UnchangedNonReact

\* reactions_collection.find_one(query, {"_id": 1})
ToggleFindExisting(p) ==
    /\ react_calls[p].pc = "find_existing"
    /\ LET call == react_calls[p]
           existing == FindReaction(reactions, call.item_id, call.user_id,
                                    call.reaction)
       IN ReactCallBecomes(p, [call EXCEPT
                                 !.existing = existing,
                                 !.pc = IF existing # 0 THEN "delete"
                                        ELSE "insert"])
    /\ UNCHANGED <<reactions, reaction_ids>>
    /\ UnchangedNonReact

\* reactions_collection.delete_one({"_id": existing["_id"]}); return False
ToggleDelete(p) ==
    /\ react_calls[p].pc = "delete"
    /\ reactions' = {r \in reactions : r.id # react_calls[p].existing}
    /\ ReactCallBecomes(p, [react_calls[p] EXCEPT !.pc = "done",
                                                  !.via = "delete",
                                                  !.result = FALSE])
    /\ UNCHANGED reaction_ids
    /\ UnchangedNonReact

\* reactions_collection.insert_one(...); return True, also when the insert
\* raised DuplicateKeyError.
ToggleInsert(p) ==
    /\ react_calls[p].pc = "insert"
    /\ LET call == react_calls[p] IN
       IF ReactionUniqueViolated(reactions, call.item_id, call.user_id,
                                 call.reaction)
       THEN /\ UNCHANGED <<reactions, reaction_ids>>
            /\ ReactCallBecomes(p, [call EXCEPT !.pc = "done",
                                                !.via = "duplicate",
                                                !.result = TRUE])
       ELSE /\ reaction_ids < MaxReactionIds
            /\ reactions' = reactions \cup
                              {[id |-> reaction_ids + 1,
                                item_id |-> call.item_id,
                                user_id |-> call.user_id,
                                reaction |-> call.reaction]}
            /\ reaction_ids' = reaction_ids + 1
            /\ ReactCallBecomes(p, [call EXCEPT !.pc = "done",
                                                !.via = "insert",
                                                !.result = TRUE])
    /\ UnchangedNonReact

\* The call returns or raises and the coroutine is free for another call.
ToggleReturn(p) ==
    /\ react_calls[p].pc = "done"
    /\ ReactCallBecomes(p, IdleReactCall)
    /\ UNCHANGED <<reactions, reaction_ids>>
    /\ UnchangedNonReact

ToggleStep(p) ==
    \/ ToggleBegin(p)
    \/ ToggleFindItem(p)
    \/ ToggleFindExisting(p)
    \/ ToggleDelete(p)
    \/ ToggleInsert(p)
    \/ ToggleReturn(p)

\* Concurrent toggle_reaction calls on a room's queue.
NextReact == \E p \in Procs : ToggleStep(p)

SpecReact == InitWatch /\ [][NextReact]_vars

\* One call at a time.
NextReactSeq ==
    \E p \in Procs :
        /\ \A q \in Procs \ {p} : react_calls[q].pc = "idle"
        /\ ToggleStep(p)

SpecReactSeq == InitWatch /\ [][NextReactSeq]_vars

(***************************************************************************)
(* Specifications of RoomService.                                          *)
(***************************************************************************)
\* The member lists a create_room request can carry.
MemberLists(names) ==
    UNION {[1..n -> [user_id : Users, name : names]] : n \in 0..MaxMembers}

\* No room is stored and no create_room is on its way to insert one.
NoRoomYet ==
    /\ rooms = NoRooms
    /\ \A q \in Procs : room_calls[q].op # "create_room"

\* The room of member m's request is stored and has room for a member.
RoomNotFull(room) ==
    room \in DOMAIN rooms /\ Len(rooms[room].members) < MaxMembers

\* Display names of concurrent requests: two that collide and one that does
\* not.
RaceNames == {<<"d">>, <<"D">>, <<"e">>}

\* One step of a membership call of coroutine p on a stored room: the calls
\* of the service on members and admins.
MemberStep(p, names) ==
    \/ /\ NoRoomYet
       /\ \E members \in MemberLists(names) :
            CreateRoomFindName(p, <<"d">>, members, "weighted_random")
    \/ CreateRoomInsert(p)
    \/ \E room \in DOMAIN rooms, u \in Users, n \in names :
          /\ RoomNotFull(room)
          /\ AddMemberRead(p, room, [user_id |-> u, name |-> n])
    \/ AddMemberPush(p)
    \/ \E room \in DOMAIN rooms, u \in Users : RemoveMember(p, room, u)
    \/ \E room \in DOMAIN rooms, u \in Users, n \in names :
          UpdateMemberRead(p, room, [user_id |-> u, name |-> n])
    \/ UpdateMemberSet(p)
    \/ \E room \in DOMAIN rooms, u \in Users : GrantAdmin(p, room, u)
    \/ \E room \in DOMAIN rooms, u \in Users, a \in Users \cup {""} :
          LeaveRoomRead(p, room, u, a)
    \/ LeavePullAdmin(p)
    \/ LeaveAddAdmin(p)
    \/ LeavePullMember(p)
    \/ RoomCallReturn(p)

\* Concurrent membership calls on one room.
NextRoom == \E p \in Procs : MemberStep(p, RaceNames)

SpecRoom == Init /\ [][NextRoom]_vars

\* One step of a request to the rooms router of coroutine p.
ApiStep(p) ==
    \/ \E room \in Rooms, actor \in Users, target \in Users :
          ApiGrantAdminCheck(p, room, actor, target)
    \/ ApiGrantAdminGrant(p)
    \/ \E room \in Rooms, actor \in Users : ApiDeleteRoomCheck(p, room, actor)
    \/ ApiDeleteRoomDelete(p)
    \/ ApiDeleteRoomCascade(p)

\* One call at a time on one room: a call starts only when no other call is
\* in progress.
NextRoomSeq ==
    \E p \in Procs :
        /\ \A q \in Procs \ {p} : room_calls[q].pc = "idle"
        /\ (MemberStep(p, MemberNames) \/ ApiStep(p))

SpecRoomSeq == Init /\ [][NextRoomSeq]_vars

\* One step of a call that names a room: create_room of a room without
\* members, or update_room with a new name.
NameStep(p) ==
    \/ \E n \in RoomNames : CreateRoomFindName(p, n, <<>>, "weighted_random")
    \/ CreateRoomInsert(p)
    \/ \E room \in Rooms, n \in RoomNames : UpdateRoom(p, room, n, "")
    \/ RoomCallReturn(p)

\* Concurrent create_room and update_room calls.
NextRoomName == \E p \in Procs : NameStep(p)

SpecRoomName == Init /\ [][NextRoomName]_vars

(***************************************************************************)
(* Specifications of VotingService.                                        *)
(***************************************************************************)
\* The voting specifications start from a room whose queue holds freshly added
\* items and no votes.
InitVote ==
    /\ queue_items = [k \in 1..MaxVoteItems |->
                        ItemDoc("r1", [j \in 1..k |-> "a"], 0, "alice", 1)]
    /\ votes = EmptyBag
    /\ watch_history = <<>>
    /\ vote_calls = [p \in Procs |-> IdleVoteCall]
    /\ add_calls = [p \in Procs |-> IdleAddCall]
    /\ add_locks = <<>>
    /\ select_call = NoSelectCall
    /\ clock = 1
    /\ rooms = MovieRoom
    /\ room_calls = [p \in Procs |-> IdleRoomCall]
    /\ HubInit
    /\ watch_calls = [p \in Procs |-> IdleWatchCall]
    /\ ReactInit
    /\ read_call = NoReadCall

\* Concurrent calls: each coroutine makes one call, steps interleave freely.
NextVote == \E p \in Procs : VoteStep(p)

SpecVote == InitVote /\ [][NextVote]_vars

\* One call at a time: a call starts only when no other call is in progress.
NextVoteSeq ==
    \E p \in Procs :
        /\ \A q \in Procs \ {p} : vote_calls[q].pc = "idle"
        /\ (VoteStep(p) \/ VoteReturn(p))

SpecVoteSeq == InitVote /\ [][NextVoteSeq]_vars

(***************************************************************************)
(* Specification of SelectionService: select_next reads the collections    *)
(* and writes nothing, so it is applied to stored states drawn from        *)
(* bounded sets.                                                           *)
(***************************************************************************)
Scores == (0 - MaxAbsScore)..MaxAbsScore

LongUsers == Users \cup {"carol"}

UserList == <<"alice", "bob">>

\* An item document as add_item stored it and votes, status updates and
\* mark_as_watched left it.
\* A title of its own for the k-th item: k written in binary with the letters
\* a and b.
TitleBits == 6

TitleOf(k) ==
    [j \in 1..TitleBits |-> IF (k \div (2 ^ (j - 1))) % 2 = 1 THEN "b" ELSE "a"]

StoredItem(k, room, user, at, status, score) ==
    [ItemDoc(room, TitleOf(k), 0, user, at) EXCEPT
        !.status = status, !.vote_score = score,
        !.upvotes = Max0(score), !.downvotes = Max0(0 - score)]

\* The vote rows behind the items' counts: the first |score| users voted.
VoteRowsFor(items) ==
    SetToBag({[item_id |-> i, user_id |-> UserList[n],
               vote |-> IF items[i].vote_score > 0 THEN "up" ELSE "down"] :
              i \in Indexes(items), n \in Indexes(UserList)}
             \cap
             {r \in [item_id : Indexes(items), user_id : Users, vote : VoteTypes] :
                \E n \in Indexes(UserList) :
                    /\ UserList[n] = r.user_id
                    /\ n <= Max0(items[r.item_id].vote_score)
                            + Max0(0 - items[r.item_id].vote_score)
                    /\ r.vote = IF items[r.item_id].vote_score > 0
                                THEN "up" ELSE "down"})

\* The history entries mark_as_watched inserted for the items h[1], h[2], ...
HistoryOf(items, h) ==
    [k \in Indexes(h) |->
        [room_id |-> items[h[k]].room_id, item_id |-> h[k],
         watched_at |-> MaxClock + k]]

Injective(h) == \A a, b \in DOMAIN h : a # b => h[a] # h[b]

SelectRest ==
    /\ vote_calls = [p \in Procs |-> IdleVoteCall]
    /\ add_calls = [p \in Procs |-> IdleAddCall]
    /\ add_locks = <<>>
    /\ select_call = NoSelectCall
    /\ clock = MaxClock
    /\ rooms = MovieRoom
    /\ room_calls = [p \in Procs |-> IdleRoomCall]
    /\ HubInit
    /\ watch_calls = [p \in Procs |-> IdleWatchCall]
    /\ ReactInit
    /\ read_call = NoReadCall

\* Up to MaxSelItems items of any room, adder, status, score and added_at,
\* and a history of up to MaxHist of them.  Rooms and users are
\* interchangeable: the first item is in r1 and was added by alice.
InitSelect ==
    /\ \E n \in 0..MaxSelItems :
         \E f \in [1..n -> [room_id : Rooms, added_by : Users,
                            added_at : 1..MaxClock, status : Statuses,
                            vote_score : Scores]] :
            /\ n >= 1 => (f[1].room_id = "r1" /\ f[1].added_by = "alice")
            /\ queue_items = [k \in 1..n |->
                StoredItem(k, f[k].room_id, f[k].added_by, f[k].added_at,
                           f[k].status, f[k].vote_score)]
    /\ \E m \in 0..MaxHist :
         /\ m <= Len(queue_items)
         /\ \E h \in [1..m -> Indexes(queue_items)] :
              /\ Injective(h)
              /\ watch_history = HistoryOf(queue_items, h)
    /\ votes = VoteRowsFor(queue_items)
    /\ SelectRest

\* A room with a long history: the item watched first was added by one user,
\* all items watched later by another, and some items are queued.
InitSelectLong ==
    /\ \E extra \in 0..MaxOverLimit, nq \in 1..MaxLongQueued,
          old_user \in Users :
         \E recent_user \in LongUsers \ {old_user},
            f \in [1..nq -> [added_by : Users, vote_score : {0}]] :
            LET len == HistoryLimit + extra IN
            /\ queue_items = [k \in 1..(len + nq) |->
                 IF k <= len
                 THEN StoredItem(k, "r1",
                                 IF k = 1 THEN old_user ELSE recent_user,
                                 1, "watched", 0)
                 ELSE StoredItem(k, "r1", f[k - len].added_by, MaxClock,
                                 "queued", f[k - len].vote_score)]
            /\ watch_history = HistoryOf(queue_items, [k \in 1..len |-> k])
    /\ votes = VoteRowsFor(queue_items)
    /\ SelectRest

NextSelect == \E room \in Rooms : SelectNext(room)

SpecSelect == InitSelect /\ [][NextSelect]_vars

SpecSelectLong == InitSelectLong /\ [][NextSelect]_vars

(***************************************************************************)
(* Specification of delete_room among requests that add items.             *)
(***************************************************************************)
\* The room of MovieRoom and a room id without a room document, with up to
\* MaxDeleteItems items, their vote rows and the history of the watched ones.
InitDelete ==
    /\ \E n \in 1..MaxDeleteItems :
         \E f \in [1..n -> [room_id : Rooms, status : {"queued", "watched"},
                            vote_score : 0..MaxAbsScore]] :
            /\ f[1].room_id = "r1"
            /\ queue_items = [k \in 1..n |->
                 StoredItem(k, f[k].room_id, "alice", 1, f[k].status,
                            f[k].vote_score)]
    /\ watch_history =
         HistoryOf(queue_items,
                   SelectSeq([k \in Indexes(queue_items) |-> k],
                             LAMBDA k : queue_items[k].status = "watched"))
    /\ votes = VoteRowsFor(queue_items)
    /\ SelectRest

\* The title that the concurrent add_item requests add to room r1.
AddedTitle == <<"e">>

\* One step of a DELETE /rooms/{room_id} request or of an add_item call of
\* coroutine p.
DeleteStep(p) ==
    \/ \E room \in Rooms, actor \in Users : ApiDeleteRoomCheck(p, room, actor)
    \/ ApiDeleteRoomDelete(p)
    \/ DeleteRoomDistinct(p)
    \/ DeleteRoomItems(p)
    \/ DeleteRoomHistory(p)
    \/ DeleteRoomVotes(p)
    \/ /\ AddBegin(p)
       /\ add_calls'[p].room_id = "r1"
       /\ add_calls'[p].title = AddedTitle
       /\ add_calls'[p].added_by = "alice"
    \/ AddLockAcquired(p)
    \/ AddFindTitle(p)
    \/ AddFindTmdb(p)
    \/ AddInsert(p)

NextDelete == \E p \in Procs : DeleteStep(p)

SpecDelete == InitDelete /\ [][NextDelete]_vars

(***************************************************************************)
(* The reads: QueueService.get_room_queue and                              *)
(* SelectionService.start_voting_round.                                    *)
(***************************************************************************)
\* limit: int = 100 of get_room_queue.
DefaultListLimit == 100

MatchingIdsRemovedToo(items, room, status) ==
    {i \in Indexes(items) :
        /\ items[i].room_id = room
        /\ status # "" => items[i].status = status}

\* The documents matching the query of get_room_queue: the room's, in the
\* status given or, with none given, in a status other than removed.
MatchingIds(items, room, status) ==
    {i \in Indexes(items) :
        /\ items[i].room_id = room
        /\ IF status # "" THEN items[i].status = status
           ELSE items[i].status \notin {"removed"}}

\* .sort([("vote_score", -1), ("added_at", 1)]): the documents that no other
\* one sorts before; the server may return documents equal on both keys in any
\* order.
FirstSorted(items, S) ==
    {i \in S : \A j \in S : ~SortsBefore(items, j, i)}

\* The orders in which the cursor may yield the documents S.
RECURSIVE Sorted(_, _)
Sorted(items, S) ==
    IF S = {} THEN {<<>>}
    ELSE UNION {{<<first>> \o docs : docs \in Sorted(items, S \ {first})} :
                   first \in FirstSorted(items, S)}

\* .skip(skip).limit(limit) of the sorted documents, as the list of their
\* _ids: the lists get_room_queue may return.
GetRoomQueue(items, room, status, limit, skip) ==
    {SubSeq(docs, skip + 1,
            IF Len(docs) < skip + limit THEN Len(docs) ELSE skip + limit) :
        docs \in Sorted(items, MatchingIds(items, room, status))}

UnchangedByRead ==
    UNCHANGED <<queue_items, votes, watch_history, vote_calls, add_calls,
                add_locks, select_call, clock, rooms, room_calls, hub_vars,
                watch_calls, react_vars>>

\* get_room_queue(room_id, status, limit=limit, skip=skip), with no provider
\* and available_now False.  status "" stands for None.
ListRoomQueue(room, status, limit, skip) ==
    \E result \in GetRoomQueue(queue_items, room, status, limit, skip) :
    /\ read_call' = [NoReadCall EXCEPT
                       !.op = "get_room_queue", !.room_id = room,
                       !.status = status, !.limit = limit, !.skip = skip,
                       !.result = result]
    /\ UnchangedByRead

StartVotingRoundMarksItems(room, duration) ==
    /\ read_call' = [NoReadCall EXCEPT !.op = "start_voting_round",
                                       !.room_id = room,
                                       !.duration_seconds = duration,
                                       !.result = <<room, clock, "voting">>]
    /\ queue_items' = [k \in Indexes(queue_items) |->
                         IF /\ queue_items[k].room_id = room
                            /\ queue_items[k].status = "queued"
                         THEN [queue_items[k] EXCEPT !.status = "watching"]
                         ELSE queue_items[k]]
    /\ UNCHANGED <<votes, watch_history, vote_calls, add_calls, add_locks,
                   select_call, clock, rooms, room_calls, hub_vars,
                   watch_calls, react_vars>>

\* start_voting_round(room_id, duration_seconds): with no duration given (0)
\* the room document is read and the call raises when there is none; the
\* result names the room, the start time and the state "voting".
StartVotingRound(room, duration) ==
    /\ read_call' =
         IF duration = 0 /\ room \notin DOMAIN rooms
         THEN [NoReadCall EXCEPT !.op = "start_voting_round",
                                 !.room_id = room, !.error = "ValueError"]
         ELSE [NoReadCall EXCEPT !.op = "start_voting_round",
                                 !.room_id = room,
                                 !.duration_seconds = duration,
                                 !.result = <<room, clock, "voting">>]
    /\ UnchangedByRead

\* Up to MaxListItems items of any room, status, score and added_at, or a
\* room with more items than the default limit, each added later than the one
\* before.
InitList ==
    /\ \/ \E n \in 0..MaxListItems :
            \E f \in [1..n -> [room_id : Rooms, added_at : 1..MaxClock,
                               status : Statuses, vote_score : Scores]] :
               queue_items = [k \in 1..n |->
                   StoredItem(k, f[k].room_id, "alice", f[k].added_at,
                              f[k].status, f[k].vote_score)]
       \/ \E extra \in 1..MaxOverLimit, status \in {"queued", "removed"} :
            queue_items = [k \in 1..(DefaultListLimit + extra) |->
                StoredItem(k, "r1", "alice", k,
                           IF k = 1 THEN status ELSE "queued", 0)]
    /\ watch_history = <<>>
    /\ votes = VoteRowsFor(queue_items)
    /\ SelectRest

\* The limits and offsets of the calls: the defaults and small ones.
ListLimits == {1, DefaultListLimit}

ListSkips == {0, 1}

NextList ==
    \E room \in Rooms, status \in Statuses \cup {""},
       limit \in ListLimits, skip \in ListSkips :
        ListRoomQueue(room, status, limit, skip)

SpecList == InitList /\ [][NextList]_vars

\* select_next and start_voting_round on stored states.
NextSelectRound ==
    \E room \in Rooms :
        \/ SelectNext(room)
        \/ \E duration \in 0..1 : StartVotingRound(room, duration)

\* The states of InitSelect whose items were added one after the other.
InitSelectRound ==
    /\ InitSelect
    /\ \A k \in Indexes(queue_items) : queue_items[k].added_at = k

SpecSelectRound == InitSelectRound /\ [][NextSelectRound]_vars

(***************************************************************************)
(* Properties of VotingService.                                            *)
(***************************************************************************)
\* Number of documents of votes for item i with direction d, counted row by
\* row over the users.
RECURSIVE SumCopies(_, _, _)
SumCopies(S, i, d) ==
    IF S = {} THEN 0
    ELSE LET u == CHOOSE x \in S : TRUE IN
         CopiesIn([item_id |-> i, user_id |-> u, vote |-> d], votes)
             + SumCopies(S \ {u}, i, d)

NumVoteRows(i, d) == SumCopies(Users, i, d)

\* The coroutines that have made a call.
VoteCallers == {p \in Procs : vote_calls[p].pc # "idle"}

\* All calls made so far are completed cast_vote calls on item i by pairwise
\* distinct users.
DistinctCastsCompleted(i) ==
    /\ Cardinality(VoteCallers) >= 2
    /\ \A p \in VoteCallers :
         /\ vote_calls[p].pc = "done"
         /\ vote_calls[p].op = "vote"
         /\ vote_calls[p].item_id = i
    /\ \A p, q \in VoteCallers :
         p # q => vote_calls[p].user_id # vote_calls[q].user_id

CastsWith(d) == {p \in VoteCallers : vote_calls[p].vote = d}

\* C1: once N concurrent cast_vote calls on one item by N distinct users have
\* all completed, the item's upvotes and downvotes equal the numbers of up and
\* down votes cast and vote_score is their difference, whatever the
\* interleaving of upsert, aggregate read and count write.
C1_ConcurrentCastsExactCounts ==
    \A i \in Indexes(queue_items) :
        DistinctCastsCompleted(i) =>
            /\ queue_items[i].upvotes = Cardinality(CastsWith("up"))
            /\ queue_items[i].downvotes = Cardinality(CastsWith("down"))
            /\ queue_items[i].vote_score =
                   Cardinality(CastsWith("up")) - Cardinality(CastsWith("down"))

NoVoteCallInProgress == \A p \in Procs : ~VoteActive(p)

\* C2: after any sequence of cast_vote and remove_vote calls run one at a
\* time, every item's upvotes is the number of its vote rows with direction
\* up, its downvotes the number with direction down, and its vote_score is
\* upvotes minus downvotes.
C2_SequentialCountsMatchRows ==
    NoVoteCallInProgress =>
        \A i \in Indexes(queue_items) :
            /\ queue_items[i].upvotes = NumVoteRows(i, "up")
            /\ queue_items[i].downvotes = NumVoteRows(i, "down")
            /\ queue_items[i].vote_score =
                   queue_items[i].upvotes - queue_items[i].downvotes

\* A remove_vote has deleted a row of an item that keeps another user's down
\* vote: the counts were recomputed after a cast and after a removal.
C2_Witness ==
    /\ NoVoteCallInProgress
    /\ \E p \in Procs :
         /\ vote_calls[p].pc = "done"
         /\ vote_calls[p].op = "remove_vote"
         /\ vote_calls[p].matched = 1
         /\ vote_calls[p].item_id \in Indexes(queue_items)
         /\ queue_items[vote_calls[p].item_id].downvotes = 1
         /\ queue_items[vote_calls[p].item_id].upvotes = 0
         /\ NumVoteRows(vote_calls[p].item_id, "down") = 1

AtMostOneVoteRowPerPair ==
    \A i \in 1..(Len(queue_items) + 1), u \in Users :
        CopiesIn([item_id |-> i, user_id |-> u, vote |-> "up"], votes)
          + CopiesIn([item_id |-> i, user_id |-> u, vote |-> "down"], votes) <= 1

\* The write phase of p's upsert, taken when a row of its (item, user) exists:
\* the number of rows stays and the pair's row carries the new direction.
RevoteReplacesInPlace ==
    \A p \in Procs :
        LET c == vote_calls[p] IN
        (/\ c.pc = "upsert_write"
         /\ vote_calls'[p].pc = "aggregate"
         /\ MatchingVotes(votes, c.item_id, c.user_id) # {})
        => /\ BagCardinality(votes') = BagCardinality(votes)
           /\ CopiesIn([item_id |-> c.item_id, user_id |-> c.user_id,
                        vote |-> c.vote], votes') = 1

\* C3: under any interleaving of cast_vote calls, two concurrent first votes
\* of one user on one item included, there is at most one vote row per
\* (item_id, user_id), and a re-vote replaces the direction of the existing
\* row instead of adding a row.
C3_OneVoteRowPerItemUser ==
    [](AtMostOneVoteRowPerPair) /\ [][RevoteReplacesInPlace]_vars

\* Two first votes of the same user on the same item, neither of which found a
\* row at query time, have both completed and left one row.
C3_Witness ==
    /\ \A p \in Procs :
         /\ vote_calls[p].pc = "done"
         /\ vote_calls[p].op = "vote"
         /\ vote_calls[p].matched = 0
         /\ vote_calls[p].error = ""
         /\ vote_calls[p].item_id = vote_calls[1].item_id
         /\ vote_calls[p].user_id = vote_calls[1].user_id
    /\ BagCardinality(votes) = 1

(***************************************************************************)
(* Properties of QueueService.add_item.                                    *)
(***************************************************************************)
\* The stored non-removed items of a room whose title equals t ignoring case.
LiveItemsTitled(room, t) ==
    {i \in Indexes(queue_items) :
        /\ queue_items[i].room_id = room
        /\ Lower(queue_items[i].title) = Lower(t)
        /\ queue_items[i].status # "removed"}

\* No item of the room with that title was removed (remove_item is no part
\* of the concurrent adds).
NoneRemovedTitled(room, t) ==
    \A i \in Indexes(queue_items) :
        (queue_items[i].room_id = room /\ Lower(queue_items[i].title) = Lower(t))
            => queue_items[i].status # "removed"

C5_OneLiveItemPerTmdbId ==
    \A room \in Rooms, t \in TmdbIds :
        Cardinality({i \in Indexes(queue_items) :
                        /\ queue_items[i].room_id = room
                        /\ queue_items[i].tmdb_id = t
                        /\ queue_items[i].status # "removed"}) <= 1

(***************************************************************************)
(* Properties of SelectionService.                                         *)
(***************************************************************************)
\* The last select_next call ran the algorithm of this mode to its end.
Selected(mode) == select_call.mode = mode /\ ~select_call.timed_out

\* Item r is a queued item of the room with the maximum vote_score and, among
\* the queued items of that score, the earliest added_at.
MaxScoreEarliest(room, r) ==
    /\ r \in QueuedIds(queue_items, room)
    /\ \A j \in QueuedIds(queue_items, room) :
         /\ queue_items[j].vote_score <= queue_items[r].vote_score
         /\ queue_items[j].vote_score = queue_items[r].vote_score
               => queue_items[r].added_at <= queue_items[j].added_at

ReturnsMaxScoreEarliest ==
    IF QueuedIds(queue_items, select_call.room_id) = {}
    THEN select_call.result = 0
    ELSE MaxScoreEarliest(select_call.room_id, select_call.result)

\* Two highest_votes calls on one room, one after the other, the items
\* unchanged between them.
RepeatedHighestVotes ==
    /\ Selected("highest_votes")
    /\ select_call'.mode = "highest_votes" /\ ~select_call'.timed_out
    /\ select_call'.room_id = select_call.room_id
    /\ queue_items' = queue_items

\* C6: select_next with mode highest_votes returns the queued item of the room
\* with the maximum vote_score, the earliest added_at among those tied at the
\* maximum, and with unchanged state two calls return the same item.
C6_HighestVotesDeterministic ==
    /\ [](Selected("highest_votes") => ReturnsMaxScoreEarliest)
    /\ [][RepeatedHighestVotes => select_call'.result = select_call.result]_vars

ScoreRange == (0 - MaxAbsScore - 1)..(MaxAbsScore + 1)

\* C7: in weighted_random mode the weight of an item is
\* 1 + 2*max(0, vote_score), at least 1 also for a negative vote_score, and
\* the items select_next can return are exactly the room's queued items.
C7_WeightedRandomReachesAllQueued ==
    /\ \A v \in ScoreRange :
         /\ Weight(v) >= 1
         /\ Weight(v) = 1 + 2 * (IF v > 0 THEN v ELSE 0)
    /\ \A room \in Rooms :
         QueuedIds(queue_items, room) # {}
            => SelectWeightedRandom(queue_items, room)
                   = QueuedIds(queue_items, room)
    /\ Selected("weighted_random")
         => IF QueuedIds(queue_items, select_call.room_id) = {}
            THEN select_call.result = 0
            ELSE select_call.result \in QueuedIds(queue_items, select_call.room_id)

\* A weighted_random call returned a net-downvoted item while a queued item of
\* positive score was in the room.
C7_Witness ==
    /\ Selected("weighted_random")
    /\ select_call.result # 0
    /\ queue_items[select_call.result].vote_score < 0
    /\ \E j \in QueuedIds(queue_items, select_call.room_id) :
         queue_items[j].vote_score > 0

\* The users who added the items of the given history entries of the room.
PickersIn(room, entries) ==
    {queue_items[entries[k].item_id].added_by :
        k \in {y \in Indexes(entries) : entries[y].room_id = room}}

\* The users with a queued item in the room.
QueuedUsers(room) ==
    {queue_items[i].added_by : i \in QueuedIds(queue_items, room)}

\* In round_robin mode, while a user with a queued item has no pick among the
\* given history entries, the returned item is not of a user who has one.
NeverPickedFirst(entries) ==
    (/\ Selected("round_robin")
     /\ QueuedUsers(select_call.room_id)
            \ PickersIn(select_call.room_id, entries) # {})
    => /\ select_call.result # 0
       /\ queue_items[select_call.result].added_by
             \notin PickersIn(select_call.room_id, entries)

\* C8 as stated: in round_robin mode, as long as some user has a queued item
\* and no watched pick in the room's watch history, select_next never returns
\* an item added by a user who already has a watched pick.
C8_NeverPickedBeforePicked == NeverPickedFirst(watch_history)

\* C8, amended: in round_robin mode, as long as some user has a queued item
\* and no watched pick among the 50 most recent entries of the room's watch
\* history, select_next never returns an item added by a user who has a
\* watched pick among those 50 entries.
C8_NeverPickedBeforeRecentlyPicked ==
    NeverPickedFirst(RecentHistory(watch_history, select_call.room_id))

\* A round_robin call on a room where one queued user has a pick among the
\* recent entries and another has none, with more entries than the limit.
C8_Witness ==
    /\ Selected("round_robin")
    /\ select_call.result # 0
    /\ Len(watch_history) > HistoryLimit
    /\ LET recent == PickersIn(select_call.room_id,
                         RecentHistory(watch_history, select_call.room_id))
       IN /\ QueuedUsers(select_call.room_id) \ recent # {}
          /\ QueuedUsers(select_call.room_id) \cap recent # {}

\* watched_at of the most recent watched pick of the user in the room.
LastPickAt(room, user) ==
    LET at == {watch_history[k].watched_at :
                 k \in {y \in Indexes(watch_history) :
                          /\ watch_history[y].room_id = room
                          /\ queue_items[watch_history[y].item_id].added_by = user}}
    IN CHOOSE t \in at : \A x \in at : x <= t

\* C9: in round_robin mode, when every user who has queued items already has
\* a watched pick in the history, select_next chooses the user whose most
\* recent watched pick is the oldest and returns that user's queued item with
\* the highest vote_score.
C9_LeastRecentlyPickedFirst ==
    LET room == select_call.room_id
        r == select_call.result
    IN (/\ Selected("round_robin")
        /\ QueuedUsers(room) # {}
        /\ QueuedUsers(room) \subseteq PickersIn(room, watch_history))
       => /\ r \in QueuedIds(queue_items, room)
          /\ \A u \in QueuedUsers(room) :
               LastPickAt(room, queue_items[r].added_by) <= LastPickAt(room, u)
          /\ \A j \in QueuedIds(queue_items, room) :
               queue_items[j].added_by = queue_items[r].added_by
                  => queue_items[j].vote_score <= queue_items[r].vote_score

\* C10: when the chosen algorithm does not finish within the timeout,
\* select_next, whatever the mode, returns the item highest_votes returns
\* (maximum vote_score, earliest added_at among ties), and nothing only when
\* the room has no queued item.
C10_TimeoutFallsBackToHighestVotes ==
    (select_call.timed_out /\ select_call.mode \in Modes)
       => /\ ReturnsMaxScoreEarliest
          /\ select_call.result
                \in SelectHighestVotes(queue_items, select_call.room_id)

\* A round_robin or weighted_random call timed out in a room with queued
\* items of different scores and returned one.
C10_Witness ==
    /\ select_call.timed_out
    /\ select_call.mode \in {"round_robin", "weighted_random"}
    /\ select_call.result # 0
    /\ \E j \in QueuedIds(queue_items, select_call.room_id) :
         queue_items[j].vote_score < queue_items[select_call.result].vote_score

\* C11: for an existing room and each of the three modes, select_next
\* returns an item if and only if the room has at least one item in status
\* queued; the returned item belongs to that room and is in status queued.
C11_ReturnsQueuedItemOfRoom ==
    (select_call.mode \in Modes /\ select_call.room_id \in DOMAIN rooms)
       => /\ select_call.result # 0
               <=> \E i \in Indexes(queue_items) :
                      /\ queue_items[i].room_id = select_call.room_id
                      /\ queue_items[i].status = "queued"
          /\ select_call.result # 0
               => /\ queue_items[select_call.result].room_id
                       = select_call.room_id
                  /\ queue_items[select_call.result].status = "queued"

\* A call on the stored room returned its queued item while the other item
\* was of that room in another status, or queued in another room.
C11_Witness ==
    /\ select_call.mode \in Modes
    /\ select_call.room_id \in DOMAIN rooms
    /\ select_call.result # 0
    /\ \E j \in Indexes(queue_items) :
         \/ /\ queue_items[j].room_id = select_call.room_id
            /\ queue_items[j].status \in {"watching", "watched", "removed"}
         \/ /\ queue_items[j].room_id # select_call.room_id
            /\ queue_items[j].status = "queued"

(***************************************************************************)
(* Properties of RoomService.                                              *)
(***************************************************************************)
\* C12: in every reachable state of a room, under any interleaving of
\* create_room, add_member, remove_member, grant_admin and leave_room, every
\* id in the admin set is the user_id of a current member.
C12_AdminsAreMembers ==
    \A r \in DOMAIN rooms :
        \A a \in rooms[r].admins :
            \E k \in Indexes(rooms[r].members) : rooms[r].members[k].user_id = a

\* C13: in every reachable state, a room that has at least one member has a
\* non-empty admin set.
C13_MembersHaveAnAdmin ==
    \A r \in DOMAIN rooms : Len(rooms[r].members) >= 1 => rooms[r].admins # {}

\* C16: in every reachable state of a room, under any interleaving of
\* create_room, add_member and update_member, no two members have the same
\* user_id and no two members have display names equal ignoring case.
C16_MembersUnique ==
    \A r \in DOMAIN rooms :
        \A j, k \in Indexes(rooms[r].members) :
            j # k => /\ rooms[r].members[j].user_id # rooms[r].members[k].user_id
                     /\ Lower(rooms[r].members[j].name)
                           # Lower(rooms[r].members[k].name)

\* Coroutine p takes the first step of a call of this operation.
RoomCallStarts(p, op) == room_calls[p].pc = "idle" /\ room_calls'[p].op = op

\* The user is a member of the room and its only admin.
OnlyAdmin(doc, user) ==
    /\ \E k \in Indexes(doc.members) : doc.members[k].user_id = user
    /\ doc.admins = {user}

IsMemberOf(doc, user) ==
    \E k \in Indexes(doc.members) : doc.members[k].user_id = user

LeaveErrors ==
    {"ValueError: transfer to yourself", "ValueError: new admin not a member",
     "ValueError: last admin"}

\* C14: leave_room by a member who is the only admin fails, and leaves the
\* room's members and admins unchanged, when no new_admin is given, when
\* new_admin equals the leaving user, or when new_admin is not a current
\* member.
C14_OnlyAdminCannotLeave ==
    [][\A p \in Procs :
         LET call == room_calls'[p] IN
         (/\ RoomCallStarts(p, "leave_room")
          /\ call.room_id \in DOMAIN rooms
          /\ OnlyAdmin(rooms[call.room_id], call.user_id)
          /\ \/ call.new_admin = ""
             \/ call.new_admin = call.user_id
             \/ ~IsMemberOf(rooms[call.room_id], call.new_admin))
         => /\ call.pc = "done"
            /\ call.result \in LeaveErrors
            /\ rooms' = rooms]_vars

\* The only admin asked to leave naming a user who is not a member, and the
\* call failed.
C14_Witness ==
    \E p \in Procs :
        /\ room_calls[p].op = "leave_room" /\ room_calls[p].pc = "done"
        /\ room_calls[p].result = "ValueError: new admin not a member"
        /\ room_calls[p].room_id \in DOMAIN rooms
        /\ OnlyAdmin(rooms[room_calls[p].room_id], room_calls[p].user_id)

\* C15: leave_room by the only admin with a new_admin that is another current
\* member succeeds: in the resulting room the leaver is in neither the member
\* list nor the admin set, new_admin is in the admin set, and all other
\* members are unchanged.
C15_OnlyAdminLeavesWithTransfer ==
    [][\A p \in Procs :
         LET call == room_calls'[p]
             old == rooms[call.room_id]
             new == rooms'[call.room_id]
         IN
         /\ (/\ RoomCallStarts(p, "leave_room")
             /\ call.room_id \in DOMAIN rooms
             /\ OnlyAdmin(old, call.user_id)
             /\ call.new_admin # "" /\ call.new_admin # call.user_id
             /\ IsMemberOf(old, call.new_admin))
            => call.pc = "pull_admin" /\ rooms' = rooms
         /\ (room_calls[p].pc = "pull_admin" /\ call.pc # "pull_admin")
            => /\ call.new_admin # "" => call.pc = "add_admin"
               /\ new.members
                    = SelectSeq(old.members, LAMBDA m : m.user_id # call.user_id)
               /\ call.user_id \notin new.admins
         /\ (room_calls[p].pc = "add_admin" /\ call.pc # "add_admin")
            => /\ call.pc = "done" /\ call.result = "ok"
               /\ new.members = old.members
               /\ ~IsMemberOf(new, call.user_id)
               /\ call.user_id \notin new.admins
               /\ call.new_admin \in new.admins
               /\ IsMemberOf(new, call.new_admin)]_vars

\* An admin left naming a new admin, who is now the only admin.
C15_Witness ==
    \E p \in Procs :
        /\ room_calls[p].op = "leave_room" /\ room_calls[p].pc = "done"
        /\ room_calls[p].result = "ok"
        /\ room_calls[p].new_admin # ""
        /\ room_calls[p].room_id \in DOMAIN rooms
        /\ rooms[room_calls[p].room_id].admins = {room_calls[p].new_admin}
        /\ ~IsMemberOf(rooms[room_calls[p].room_id], room_calls[p].user_id)

\* The contract of add_member, for a given notion of colliding display names:
\* the checks on the first step, the append on the second.
AddMemberContract(Collide(_, _)) ==
    \A p \in Procs :
        LET call == room_calls'[p]
            old == rooms[call.room_id]
            taken == \E k \in Indexes(old.members) :
                        Collide(old.members[k].name, call.name)
        IN
        /\ (RoomCallStarts(p, "add_member") /\ call.room_id \in DOMAIN rooms)
           => /\ rooms' = rooms
              /\ IF IsMemberOf(old, call.user_id)
                 THEN call.pc = "done" /\ call.result = "ok"
                 ELSE IF taken
                 THEN call.pc = "done" /\ call.result = "ValueError: user exists"
                 ELSE call.pc = "push"
        /\ (room_calls[p].pc = "push" /\ call.pc # "push")
           => /\ call.pc = "done" /\ call.result = "ok"
              /\ rooms' = [rooms EXCEPT ![call.room_id].members =
                             Append(@, [user_id |-> call.user_id,
                                        name |-> call.name])]

EqualIgnoringCase(a, b) == Lower(a) = Lower(b)

EqualIgnoringCaseAndBlanks(a, b) == Lower(Strip(a)) = Lower(Strip(b))

\* C17 as stated: add_member with a user_id that is already a member changes
\* nothing and returns the current room; with a new user_id whose display
\* name equals an existing member's name ignoring case it fails with a
\* conflict and changes nothing; otherwise it appends exactly one member and
\* changes nothing else.
C17_AddMemberIgnoringCase == [][AddMemberContract(EqualIgnoringCase)]_vars

\* C17, amended: as stated, with display names compared ignoring case and
\* leading and trailing whitespace.
C17_AddMemberIgnoringCaseAndBlanks ==
    [][AddMemberContract(EqualIgnoringCaseAndBlanks)]_vars

\* add_member of a new user failed on a name that differs from a member's
\* name by more than case.
C17_Witness ==
    \E p \in Procs :
        /\ room_calls[p].op = "add_member" /\ room_calls[p].pc = "done"
        /\ room_calls[p].result = "ValueError: user exists"
        /\ room_calls[p].room_id \in DOMAIN rooms
        /\ \A k \in Indexes(rooms[room_calls[p].room_id].members) :
             ~EqualIgnoringCase(rooms[room_calls[p].room_id].members[k].name,
                                room_calls[p].name)

\* C18: leave_room for a user who is not a member of an existing room is a
\* no-op that returns the current room without error, so applying leave_room
\* twice for the same user yields the same room state as applying it once.
C18_LeaveTwiceIsLeaveOnce ==
    [][\A p \in Procs :
         LET call == room_calls'[p] IN
         /\ (/\ RoomCallStarts(p, "leave_room")
             /\ call.room_id \in DOMAIN rooms
             /\ ~IsMemberOf(rooms[call.room_id], call.user_id))
            => /\ call.pc = "done" /\ call.result = "ok"
               /\ rooms' = rooms
         /\ (/\ room_calls[p].pc # "done" /\ call.pc = "done"
             /\ call.op = "leave_room" /\ call.result = "ok"
             /\ call.room_id \in DOMAIN rooms)
            => ~IsMemberOf(rooms'[call.room_id], call.user_id)]_vars

\* leave_room returned the room to a user who is not among its members.
C18_Witness ==
    \E p \in Procs :
        /\ room_calls[p].op = "leave_room" /\ room_calls[p].pc = "done"
        /\ room_calls[p].result = "ok"
        /\ room_calls[p].room_id \in DOMAIN rooms
        /\ rooms[room_calls[p].room_id].members # <<>>
        /\ ~IsMemberOf(rooms[room_calls[p].room_id], room_calls[p].user_id)

\* C19: grant_admin and delete_room requested by an acting user who is not in
\* the room's admin set are rejected and change nothing; grant_admin for a
\* target that is not a member fails with not-found and changes nothing;
\* grant_admin for a target that is already admin leaves the admin set
\* unchanged.
C19_AdminGatedOperations ==
    [][\A p \in Procs :
         LET call == room_calls'[p] IN
         /\ (/\ RoomCallStarts(p, "api_grant_admin")
                  \/ RoomCallStarts(p, "api_delete_room")
             /\ ~(/\ call.room_id \in DOMAIN rooms
                  /\ call.actor \in rooms[call.room_id].admins))
            => /\ call.pc = "done" /\ call.result = "403"
               /\ UNCHANGED <<rooms, queue_items, votes, watch_history>>
         /\ (/\ room_calls[p].pc = "grant" /\ call.pc # "grant"
             /\ call.room_id \in DOMAIN rooms)
            => /\ ~IsMemberOf(rooms[call.room_id], call.user_id)
                    => call.result = "404" /\ rooms' = rooms
               /\ call.user_id \in rooms[call.room_id].admins
                    => rooms'[call.room_id].admins = rooms[call.room_id].admins]_vars

\* A member who is not an admin asked for grant_admin or delete_room and was
\* rejected.
C19_Witness ==
    \E p \in Procs :
        /\ room_calls[p].op \in {"api_grant_admin", "api_delete_room"}
        /\ room_calls[p].pc = "done" /\ room_calls[p].result = "403"
        /\ room_calls[p].room_id \in DOMAIN rooms
        /\ IsMemberOf(rooms[room_calls[p].room_id], room_calls[p].actor)
        /\ room_calls[p].actor \notin rooms[room_calls[p].room_id].admins

\* C20: under any interleaving of create_room and update_room calls, no two
\* rooms have names that are equal ignoring case, and a create_room with a
\* name that is already in use fails with a conflict and creates nothing.
C20_RoomNamesUnique ==
    /\ \A r, q \in DOMAIN rooms :
          r # q => ~EqualIgnoringCase(rooms[r].name, rooms[q].name)
    /\ \A p \in Procs :
          (/\ room_calls[p].op = "create_room" /\ room_calls[p].pc = "done"
           /\ room_calls[p].result = "ok")
          => \A r \in DOMAIN rooms \ {room_calls[p].room_id} :
                ~EqualIgnoringCase(rooms[r].name, room_calls[p].name)

(***************************************************************************)
(* Properties of the ConnectionManager.                                    *)
(***************************************************************************)
\* The connections registered for the user in the room: in the room's set and
\* mapped to the user.
Registered(room, user) ==
    IF room \in DOMAIN active_connections
    THEN {w \in active_connections[room] :
            w \in DOMAIN user_mapping /\ user_mapping[w] = user}
    ELSE {}

RegisteredNext(room, user) ==
    IF room \in DOMAIN active_connections'
    THEN {w \in active_connections'[room] :
            w \in DOMAIN user_mapping' /\ user_mapping'[w] = user}
    ELSE {}

\* The endpoint of w is in connect, after accept, in this step.
Registers(w) == ws_calls[w].pc = "accept" /\ ws_calls'[w].pc # "accept"

\* The endpoint of w ends its disconnect in this step.
Deregisters(w) ==
    /\ ws_calls[w].pc \in {"receive", "handle_broadcast", "disconnect_resolve"}
    /\ ws_calls'[w].pc = "closed"

\* C21: while a user has a registered connection in a room, registering a
\* further connection of that user there broadcasts no user_joined; removing
\* one of a user's connections while another one stays registered in the room
\* starts no grace timer and broadcasts no user_left.
C21_SecondConnectionIsSilent ==
    [][\A w \in WebSockets :
         LET room == ws_calls[w].room_id
             user == ws_calls[w].user_id
         IN /\ (Registers(w) /\ Registered(room, user) # {})
               => /\ presence_sent' = presence_sent
                  /\ ws_calls'[w].pc # "connect_broadcast"
            /\ (Deregisters(w) /\ RegisteredNext(room, user) # {})
               => /\ presence_sent' = presence_sent
                  /\ pending_leave_tasks' = pending_leave_tasks
                  /\ leave_tasks' = leave_tasks]_vars

\* A user has a connection whose endpoint has closed without a leave task and
\* another one that is registered, and the user was announced once.
C21_Witness ==
    \E w, x \in WebSockets :
        /\ ws_calls[w].pc = "closed" /\ leave_tasks[w].pc = "none"
        /\ ws_calls[x].pc = "receive"
        /\ ws_calls[x].room_id = ws_calls[w].room_id
        /\ ws_calls[x].user_id = ws_calls[w].user_id
        /\ x \in Registered(ws_calls[x].room_id, ws_calls[x].user_id)
        /\ presence_sent[<<ws_calls[x].room_id, ws_calls[x].user_id>>]
              = <<"user_joined">>

\* C22: user_joined for a (room, user) is broadcast only on the
\* offline-to-online edge: between any two user_joined broadcasts for the same
\* (room, user) there is a user_left broadcast for it.
C22_JoinedOnlyAfterLeft ==
    \A k \in Rooms \X Users :
        \A i \in Indexes(presence_sent[k]) :
            (i > 1 /\ presence_sent[k][i] = "user_joined")
            => presence_sent[k][i - 1] = "user_left"

\* C23: a leave task broadcasts user_left only when it was not cancelled by a
\* reconnect and the user has no registered connection in the room at the
\* time it fires; a connect cancels the leave task pending for its user.
C23_ReconnectCancelsLeave ==
    [][/\ \A t \in WebSockets :
            LET key == <<leave_tasks[t].room_id, leave_tasks[t].user_id>> IN
            (/\ leave_tasks[t].pc = "sleep" /\ leave_tasks'[t].pc # "sleep"
             /\ presence_sent'[key] # presence_sent[key])
            => /\ ~leave_tasks[t].cancelled
               /\ Registered(key[1], key[2]) = {}
       /\ \A w \in WebSockets :
            LET key == <<ws_calls[w].room_id, ws_calls[w].user_id>> IN
            (Registers(w) /\ ws_calls'[w].pc # "refused"
               /\ key \in DOMAIN pending_leave_tasks)
            => /\ key \notin DOMAIN pending_leave_tasks'
               /\ leave_tasks'[pending_leave_tasks[key]].cancelled]_vars

\* A user's last connection dropped and the user is registered again while
\* the leave task of the drop has not run.
C23_Witness ==
    \E t \in WebSockets :
        /\ leave_tasks[t].pc = "sleep" /\ leave_tasks[t].cancelled
        /\ <<leave_tasks[t].room_id, leave_tasks[t].user_id>>
              \notin DOMAIN pending_leave_tasks
        /\ Registered(leave_tasks[t].room_id, leave_tasks[t].user_id) # {}

\* The user had a registered connection in the room and has none.
DroppedOut(room, user) ==
    /\ \E w \in WebSockets :
          /\ ws_calls[w].room_id = room /\ ws_calls[w].user_id = user
          /\ ws_calls[w].pc \notin {"new", "accept", "refused"}
    /\ Registered(room, user) = {}

\* The last presence broadcast about the user said user_left.
SaidLeft(room, user) ==
    /\ presence_sent[<<room, user>>] # <<>>
    /\ presence_sent[<<room, user>>][Len(presence_sent[<<room, user>>])]
          = "user_left"

\* C24: whenever a user's last registered connection in a room is removed from
\* the registry, by a disconnect or by being dropped after a failed send of a
\* broadcast, and the user does not reconnect, a user_left for that user is
\* eventually broadcast.
C24_LastDropLeadsToUserLeft ==
    \A room \in Rooms, user \in Users :
        DroppedOut(room, user)
        ~> (SaidLeft(room, user) \/ Registered(room, user) # {})

\* C25: during a broadcast, a send failure on one connection does not stop or
\* fail the broadcast: every other registered, non-excluded connection of the
\* room is still sent the message, and the failing connections are removed
\* from the room's connection set and from both user mappings.
C25_SendFailureIsIsolated ==
    [][\A w \in WebSockets :
         LET b == ws_calls[w].bcast
             room == b.room_id
         IN (b.type # "" /\ ws_calls'[w] # ws_calls[w])
            => /\ sockets[w] = "open" => ws_calls'[w].pc # "crashed"
               /\ ws_calls'[w].pc \notin {"closed", "disconnect_resolve"}
               /\ ws_calls'[w].bcast.type = b.type
                  => /\ ws_calls'[w].bcast.visited \ b.visited # {}
                     /\ b.visited \subseteq ws_calls'[w].bcast.visited
               /\ ws_calls'[w].bcast.type = ""
                  => /\ b.visited = b.snapshot \ {b.exclude}
                     /\ active_connections'[room] = b.snapshot \ b.disconnected
                     /\ \A c \in b.disconnected :
                           /\ c \notin DOMAIN user_mapping'
                           /\ c \notin DOMAIN user_name_mapping']_vars

\* A broadcast has dropped a connection whose send failed, and the endpoint
\* that broadcast is back in its loop.
C25_Witness ==
    \E w, c \in WebSockets :
        /\ ws_calls[w].pc = "receive" /\ ws_calls[c].pc = "receive"
        /\ ws_calls[w].room_id = ws_calls[c].room_id
        /\ w \in Registered(ws_calls[w].room_id, ws_calls[w].user_id)
        /\ c \notin DOMAIN user_mapping
        /\ c \notin active_connections[ws_calls[c].room_id]

\* The connections the relayed message of this type is for.
RecipientsOf(type, sender, room) ==
    IF type \in {"vote_update", "queue_update", "reaction_update"}
    THEN active_connections[room] \ {sender}
    ELSE active_connections[room]

C27_SilentConnectionIsClosed ==
    \A w \in WebSockets :
        ws_calls[w].timeouts > 0 => ws_calls[w].pc # "receive"

(***************************************************************************)
(* Properties of the status of queue items and of the watch history.       *)
(***************************************************************************)
\* C28: once an item's status is removed it stays removed in every later
\* state: no operation changes its status, and the item is not in the default
\* listing again although its record persists.
C28_RemovedIsTerminal ==
    [][\A i \in Indexes(queue_items) :
         queue_items[i].status = "removed"
         => /\ i \in Indexes(queue_items')
            /\ queue_items'[i].status = "removed"
            /\ ~InDefaultListing(queue_items', i)]_vars

\* The place of a status on the way queued, watching, watched.
StatusRank(status) ==
    CASE status = "queued" -> 1
      [] status = "watching" -> 2
      [] status = "watched" -> 3
      [] OTHER -> 0

\* C29: an item's status only moves forward along queued, watching, watched:
\* no operation takes a watched item back to watching or queued, or a
\* watching item back to queued.
C29_StatusMovesForward ==
    [][\A i \in Indexes(queue_items) :
         (/\ StatusRank(queue_items[i].status) > 0
          /\ StatusRank(queue_items'[i].status) > 0)
         => StatusRank(queue_items'[i].status)
              >= StatusRank(queue_items[i].status)]_vars

\* C30: under any interleaving of mark_as_watched calls, the watch history
\* holds at most one entry per item; an entry, once created, keeps its
\* watched_at, ratings and notes; and every call that returns an entry
\* returns the one entry of its item.
C30_OneHistoryEntryPerItem ==
    [][/\ \A a, b \in Indexes(watch_history') :
            watch_history'[a].item_id = watch_history'[b].item_id => a = b
       /\ \A k \in Indexes(watch_history) :
            /\ k \in Indexes(watch_history')
            /\ watch_history'[k] = watch_history[k]
       /\ \A p \in Procs :
            (/\ watch_calls'[p].pc = "done"
             /\ watch_calls'[p].error = "")
            => /\ watch_calls'[p].result \in Indexes(watch_history')
               /\ watch_history'[watch_calls'[p].result].item_id
                    = watch_calls'[p].item_id
       /\ \A p \in Procs :
            watch_calls[p].pc = "find_existing"
            => watch_calls'[p].error = ""]_vars

\* Two mark_as_watched calls for one item, given different notes, have both
\* returned the same entry, which one of them created.
C30_Witness ==
    \E p, q \in Procs :
        /\ p # q
        /\ watch_calls[p].pc = "done" /\ watch_calls[q].pc = "done"
        /\ watch_calls[p].op = "mark_as_watched"
        /\ watch_calls[q].op = "mark_as_watched"
        /\ watch_calls[p].error = "" /\ watch_calls[q].error = ""
        /\ watch_calls[p].item_id = watch_calls[q].item_id
        /\ watch_calls[p].notes # watch_calls[q].notes
        /\ watch_calls[p].result = watch_calls[q].result
        /\ Len(watch_history) = 1
        /\ watch_history[1].notes = watch_calls[p].notes

\* C31: repeating the watch request for an item that was already marked
\* watched leaves the state as it was after the first request: whenever a
\* watch request has returned an entry, the item has exactly one history entry
\* and its status is watched.
C31_DuplicateWatchIsIdempotent ==
    \A p \in Procs :
        (/\ watch_calls[p].op = "watch"
         /\ watch_calls[p].pc = "done"
         /\ watch_calls[p].error = "")
        => /\ Cardinality({k \in Indexes(watch_history) :
                             watch_history[k].item_id = watch_calls[p].item_id})
                = 1
           /\ queue_items[watch_calls[p].item_id].status = "watched"

(***************************************************************************)
(* Properties of ReactionService.                                          *)
(***************************************************************************)
\* The documents of the triple the call of p names.
RowsOfCall(rows, p) ==
    {r \in rows : /\ r.item_id = react_calls[p].item_id
                  /\ r.user_id = react_calls[p].user_id
                  /\ r.reaction = react_calls[p].reaction}

\* C32: toggle_reaction is a strict flip of the existence of the (item, user,
\* kind) row: with calls one after the other, a call for an existing item and
\* an allowed kind creates the row and returns true when the row was absent,
\* deletes it and returns false when it was present, and changes no vote row
\* and no vote count.
C32_ToggleIsStrictFlip ==
    [][\A p \in Procs :
         (/\ react_calls[p].pc \in {"insert", "delete"}
          /\ react_calls'[p].pc = "done")
         => LET had == RowsOfCall(reactions, p) # {} IN
            /\ react_calls'[p].error = ""
            /\ react_calls'[p].result = ~had
            /\ (RowsOfCall(reactions', p) # {}) = ~had
            /\ reactions' \ RowsOfCall(reactions', p)
                 = reactions \ RowsOfCall(reactions, p)
            /\ votes' = votes
            /\ queue_items' = queue_items]_vars

\* A toggle has returned false and left no row: the second of two toggles.
C32_Witness ==
    \E p \in Procs :
        /\ react_calls[p].pc = "done" /\ react_calls[p].via = "delete"
        /\ ~react_calls[p].result
        /\ reactions = {}
        /\ reaction_ids > 0

\* C33: in every reachable state there is at most one row per triple, and
\* when two concurrent toggle_reaction calls for the same absent triple both
\* reach the insert, neither fails: both return active and exactly one row
\* of the triple exists when each of them returns.
C33_ConcurrentToggleInsertsOnce ==
    /\ [](\A r, x \in reactions :
            (/\ r.item_id = x.item_id /\ r.user_id = x.user_id
             /\ r.reaction = x.reaction) => r = x)
    /\ [][\A p \in Procs :
            (/\ react_calls[p].pc = "insert"
             /\ react_calls'[p].pc # "insert")
            => /\ react_calls'[p].via \in {"insert", "duplicate"}
               /\ react_calls'[p].error = ""
               /\ react_calls'[p].result
               /\ Cardinality(RowsOfCall(reactions', p)) = 1]_vars

\* Two calls for one triple have both found no row and both gone to the
\* insert; one inserted and the other one met the unique index.
C33_Witness ==
    \E p, q \in Procs :
        /\ p # q
        /\ react_calls[p].pc = "done" /\ react_calls[p].via = "insert"
        /\ react_calls[q].pc = "done" /\ react_calls[q].via = "duplicate"
        /\ react_calls[p].existing = 0 /\ react_calls[q].existing = 0
        /\ react_calls[p].item_id = react_calls[q].item_id
        /\ react_calls[p].user_id = react_calls[q].user_id
        /\ react_calls[p].reaction = react_calls[q].reaction
        /\ reaction_ids = 1

(***************************************************************************)
(* Properties of the connection registry.                                  *)
(***************************************************************************)
\* C40: in every reachable state of the connection registry, a connection is
\* a member of some room's connection set if and only if it has a user
\* mapping, and no room key maps to an empty connection set; this holds also
\* between the steps of a disconnect and after a broadcast has dropped
\* failing connections.
C40_RegistryConsistent ==
    /\ \A w \in WebSockets :
          (\E room \in DOMAIN active_connections :
               w \in active_connections[room])
          <=> w \in DOMAIN user_mapping
    /\ \A room \in DOMAIN active_connections : active_connections[room] # {}

\* A coroutine is suspended in a send of a broadcast b over the room's
\* connection set, before and after the step: the step is not its own.
SuspendedInBroadcast(b, after, room) ==
    /\ b.type # "" /\ b.room_id = room
    /\ after.type = b.type /\ after.visited = b.visited

\* The step leaves the room's connection set and the user mappings as they
\* are.
RegistryUntouched(room) ==
    /\ room \in DOMAIN active_connections'
          <=> room \in DOMAIN active_connections
    /\ room \in DOMAIN active_connections
          => active_connections'[room] = active_connections[room]
    /\ user_mapping' = user_mapping
    /\ user_name_mapping' = user_name_mapping

\* C36: registry mutations are mutually exclusive with each other and with
\* registry traversals: no connect, disconnect or broadcast cleanup changes a
\* room's connection set or the user mappings while another task is suspended
\* in the middle of a broadcast over that room's connection set or in the
\* middle of a disconnect.
C36_RegistryMutationsExclusive ==
    [][\A x \in WebSockets, room \in Rooms :
         (\/ SuspendedInBroadcast(ws_calls[x].bcast, ws_calls'[x].bcast, room)
          \/ SuspendedInBroadcast(leave_tasks[x].bcast, leave_tasks'[x].bcast,
                                  room)
          \/ /\ ws_calls[x].pc = "disconnect_resolve"
             /\ ws_calls'[x].pc = "disconnect_resolve"
             /\ ws_calls[x].room_id = room)
         => RegistryUntouched(room)]_vars

\* C37: every connection registered by connect is deregistered once its
\* handler has ended for any reason (client disconnect, receive error, failed
\* ping, or failure of the initial presence send right after connect), and its
\* heartbeat task is cancelled: no connection stays in the registry after its
\* handler has terminated.
C37_EndedHandlerIsDeregistered ==
    \A w \in WebSockets :
        ws_calls[w].pc \in {"crashed", "closed"}
        => /\ \A room \in DOMAIN active_connections :
                 w \notin active_connections[room]
           /\ w \notin DOMAIN user_mapping
           /\ w \notin DOMAIN user_name_mapping
           /\ ws_calls[w].heartbeat # "running"

\* The grace timers of a (room, user) that were not cancelled and have not
\* ended.
LiveTimers(room, user) ==
    {t \in WebSockets :
        /\ leave_tasks[t].pc \in {"sleep", "broadcast"}
        /\ ~leave_tasks[t].cancelled
        /\ leave_tasks[t].room_id = room /\ leave_tasks[t].user_id = user}

\* C38: for each transition of a user from online to offline in a room,
\* user_left is broadcast at most once and at most one grace timer is live per
\* (room, user), with pending_leave_tasks holding exactly the live timer; this
\* holds when several connections of the same user are disconnected
\* concurrently and when a cancelled timer finishes after a newer timer for
\* the same key was scheduled.
C38_OneLiveTimerOneUserLeft ==
    \A room \in Rooms, user \in Users :
        LET key == <<room, user>> IN
        /\ \A i \in Indexes(presence_sent[key]) :
              (i > 1 /\ presence_sent[key][i] = "user_left")
              => presence_sent[key][i - 1] # "user_left"
        /\ Cardinality(LiveTimers(room, user)) <= 1
        /\ LiveTimers(room, user) =
              IF key \in DOMAIN pending_leave_tasks
              THEN {pending_leave_tasks[key]} ELSE {}

(***************************************************************************)
(* Properties of the reads.                                                *)
(***************************************************************************)
\* The list holds each of its documents once, all of them matching, in the
\* order of the sort: no document of the list sorts before an earlier one.
ListedInOrder(lst, S) ==
    /\ \A a \in Indexes(lst) : lst[a] \in S
    /\ \A a, b \in Indexes(lst) :
          a < b => /\ lst[a] # lst[b]
                   /\ ~SortsBefore(queue_items, lst[b], lst[a])

C39_SelectionChangesNothing ==
    [][(select_call' # select_call \/ read_call' # read_call)
       => /\ queue_items' = queue_items
          /\ votes' = votes
          /\ watch_history' = watch_history
          /\ rooms' = rooms
          /\ reactions' = reactions
          /\ select_call'.result # 0
             => queue_items'[select_call'.result].status = "queued"]_vars

\* select_next has selected an item by the timeout fallback and a voting
\* round was started, the items as they were stored.
C39_Witness ==
    /\ select_call.result # 0 /\ select_call.timed_out
    /\ read_call.op = "start_voting_round" /\ read_call.error = ""
    /\ queue_items[select_call.result].status = "queued"

(***************************************************************************)
(* Properties of RoomService.delete_room.                                  *)
(***************************************************************************)
\* The delete_room calls that have deleted the room document and have not
\* returned.
InCascade(call) ==
    /\ call.op = "api_delete_room"
    /\ call.pc \in {"cascade", "delete_items", "delete_history", "delete_votes"}

\* Nothing of the room is stored: no queue item, no history entry, and no
\* vote row of an item of the room, stored or deleted.
NothingLeftOf(room, items, history, rows) ==
    /\ \A i \in Indexes(items) : items[i].room_id # room
    /\ \A k \in Indexes(history) : history[k].room_id # room
    /\ \A r \in BagToSet(rows) : r.item_id \in Indexes(items)

\* C35: delete_room removes the room document before any dependent data, so in
\* every intermediate state of the cascade the room cannot be found; once
\* delete_room has completed, no queue item of that room, no watch-history
\* entry of that room and no vote referencing one of that room's items
\* remains; delete_room on a room that does not exist deletes nothing and
\* reports false.
C35_DeleteRoomCascades ==
    [][\A p \in Procs :
         /\ InCascade(room_calls'[p])
            => room_calls'[p].room_id \notin DOMAIN rooms'
         /\ (InCascade(room_calls[p]) /\ room_calls'[p].pc = "done")
            => NothingLeftOf(room_calls[p].room_id, queue_items',
                             watch_history', votes')
         /\ (room_calls'[p] # room_calls[p] /\ room_calls'[p].result = "404")
            => /\ rooms' = rooms
               /\ queue_items' = queue_items
               /\ watch_history' = watch_history
               /\ votes' = votes]_vars

====
